---- MODULE Spec2Model ----
(***************************************************************************)
(* A model of the validator core of packages/core/src/schemas.ts: the      *)
(* parse/run protocol of $ZodType, the check runner, and the parse         *)
(* algorithms of the primitive, wrapper and composite nodes, evaluated     *)
(* synchronously (ParseContextInternal.async === false).                   *)
(*                                                                         *)
(* JavaScript values are tagged records; a node is the record of its def;  *)
(* the result of run/parse is a record holding the returned payload        *)
(* (value, issues), the error thrown instead (thrown), the log of the      *)
(* nodes whose run was entered (calls), and the final state of the payload *)
(* object that was passed in when the returned payload is another object   *)
(* (same, argv, argi).                                                     *)
(***************************************************************************)
EXTENDS Integers, Sequences, FiniteSets, TLC

VARIABLES node, input, safeResult, parseResult, fastRun, genericRun,
          asyncRun, validateResult, edited, lazy

vars == <<node, input, safeResult, parseResult, fastRun, genericRun,
          asyncRun, validateResult, edited, lazy>>

(***************************************************************************)
(* Bounds of the model.                                                    *)
(***************************************************************************)
MaxNum == 2
MaxLen == 2

(***************************************************************************)
(* JavaScript values.                                                      *)
(***************************************************************************)
Undef == [k |-> "undefined"]
Str(s) == [k |-> "string", s |-> s]
Num(n) == [k |-> "number", n |-> n]
Obj(ks, vs) == [k |-> "object", ks |-> ks, vs |-> vs]
Arr(xs) == [k |-> "array", xs |-> xs]
EmptyObj == Obj(<<>>, <<>>)

\* The property keys "0", "1", ... of array indices, by index.
IndexKeys == <<"0", "1", "2", "3", "4">>

SeqRange(s) == {s[i] : i \in DOMAIN s}

IndexOfKey(ks, key) == CHOOSE i \in DOMAIN ks : ks[i] = key

IsIndexKey(key) == key \in SeqRange(IndexKeys)

\* Object.keys(v): own enumerable string keys, in property order.
OwnKeys(v) ==
  IF v.k = "object" THEN v.ks
  ELSE IF v.k = "array" THEN [i \in DOMAIN v.xs |-> IndexKeys[i]]
  ELSE <<>>

\* key in v
KeyIn(v, key) == key \in SeqRange(OwnKeys(v))

\* v[key] (v?.[key] for a primitive v): undefined when v has no such property.
Get(v, key) ==
  IF ~KeyIn(v, key) THEN Undef
  ELSE IF v.k = "object" THEN v.vs[IndexOfKey(v.ks, key)]
  ELSE v.xs[IndexOfKey(IndexKeys, key)]

\* o[key] = v on an ordinary object: an existing property keeps its place, a
\* new array-index key goes before the string keys in ascending order, a new
\* string key goes last.
SetProp(o, key, v) ==
  IF key \in SeqRange(o.ks)
  THEN Obj(o.ks, [o.vs EXCEPT ![IndexOfKey(o.ks, key)] = v])
  ELSE IF IsIndexKey(key)
  THEN LET before == Cardinality({i \in DOMAIN o.ks :
                        /\ IsIndexKey(o.ks[i])
                        /\ IndexOfKey(IndexKeys, o.ks[i]) < IndexOfKey(IndexKeys, key)})
       IN Obj(SubSeq(o.ks, 1, before) \o <<key>> \o SubSeq(o.ks, before + 1, Len(o.ks)),
              SubSeq(o.vs, 1, before) \o <<v>> \o SubSeq(o.vs, before + 1, Len(o.vs)))
  ELSE Obj(Append(o.ks, key), Append(o.vs, v))

isObject(data) == data.k \in {"object", "array"}

isPlainObject(data) == data.k = "object"

\* An object or array of the caller has an identity, ref; the containers a
\* node builds have none.  Object.freeze marks the object it is given.
Located(v, ref) == v @@ ("ref" :> ref)
IsLocated(v) == "ref" \in DOMAIN v
freeze(v) == IF isObject(v) THEN ("frozen" :> TRUE) @@ v ELSE v

(***************************************************************************)
(* Issues.  A raw issue carries no path; an absent path reads as <<>>, an   *)
(* absent maximum or minimum as -1.                                        *)
(***************************************************************************)
RawIssue(code, expected, inp, inst) ==
  [code |-> code, expected |-> expected, input |-> inp, inst |-> inst,
   path |-> <<>>, cont |-> FALSE, keys |-> <<>>, errors |-> <<>>,
   issues |-> <<>>, values |-> <<>>, note |-> "", origin |-> "", message |-> "",
   maximum |-> -1, minimum |-> -1]

\* util.prefixIssues: the key or index is prepended to every issue's path.
prefixIssues(key, issues) ==
  [i \in DOMAIN issues |-> [issues[i] EXCEPT !.path = <<key>> \o @]]

\* util.finalizeIssue: the issue with its message resolved.
finalizeIssue(iss) == [iss EXCEPT !.message = "resolved"]

\* util.aborted: some issue from startIndex on is not continuable.
aborted(issues, startIndex) ==
  \E i \in DOMAIN issues : i > startIndex /\ issues[i].cont # TRUE

(***************************************************************************)
(* Results of run and parse.  A result is a payload or a Promise of one:   *)
(* promise tells which, at is the time the Promise settles, counted from   *)
(* the call (0: within the microtasks that follow the call), issues are    *)
(* the issues the payload holds at that time, and late lists the issues    *)
(* pushed onto the same payload afterwards, each with its time.  A Promise *)
(* with thrown other than "none" is a rejected one.  trace is the log of    *)
(* the check loop: for every check in turn, the issues the payload held    *)
(* when the loop reached it and whether the check was invoked.             *)
(***************************************************************************)
Same(value, issues, calls) ==
  [value |-> value, issues |-> issues, thrown |-> "none", calls |-> calls,
   same |-> TRUE, argv |-> value, argi |-> issues,
   promise |-> FALSE, at |-> 0, late |-> <<>>, trace |-> <<>>]

Other(value, issues, calls, argv, argi) ==
  [value |-> value, issues |-> issues, thrown |-> "none", calls |-> calls,
   same |-> FALSE, argv |-> argv, argi |-> argi,
   promise |-> FALSE, at |-> 0, late |-> <<>>, trace |-> <<>>]

Thrown(kind, calls) ==
  [value |-> Undef, issues |-> <<>>, thrown |-> kind, calls |-> calls,
   same |-> TRUE, argv |-> Undef, argi |-> <<>>,
   promise |-> FALSE, at |-> 0, late |-> <<>>, trace |-> <<>>]

\* A push scheduled for time t.
Later(t, issues) == [j \in DOMAIN issues |-> [t |-> t, issue |-> issues[j]]]

\* Scheduled pushes in the order they happen: by time, and at one time in the
\* order in which they were scheduled.
RECURSIVE ByTime(_)
ByTime(late) ==
  IF late = <<>> THEN <<>>
  ELSE LET m == CHOOSE t \in {late[j].t : j \in DOMAIN late} :
                  \A j \in DOMAIN late : t <= late[j].t
       IN SelectSeq(late, LAMBDA e : e.t = m) \o ByTime(SelectSeq(late, LAMBDA e : e.t # m))

\* The issues of the pushes that have happened by time t, and the others.
IssuesOf(late) == [j \in DOMAIN late |-> late[j].issue]

PushedBy(late, t) == IssuesOf(SelectSeq(ByTime(late), LAMBDA e : e.t <= t))

PendingAfter(late, t) == SelectSeq(ByTime(late), LAMBDA e : e.t > t)

\* Every issue the payload of a result ends up holding.
EventualIssues(res) == res.issues \o IssuesOf(ByTime(res.late))

\* The pushes of a result that was obtained at time t rather than at 0.
Delayed(late, t) == [j \in DOMAIN late |-> [late[j] EXCEPT !.t = @ + t]]

Fresh(value) == [value |-> value, issues |-> <<>>]

AsyncError == "$ZodAsyncError"
UnmergableError == "Unmergable intersection"

(***************************************************************************)
(* Nodes: the record of a node is its def.  A check is a $ZodCustom node;  *)
(* its fn is described by the values it answers truthy for and by whether  *)
(* it returns a Promise.  A transform function and the defaultValue and    *)
(* catchValue factories are described by the value they return.            *)
(***************************************************************************)
NoNode == [type |-> "none"]

ZodString(checks) == [type |-> "string", checks |-> checks]
ZodNumber(checks) == [type |-> "number", checks |-> checks]
ZodUndefined == [type |-> "undefined", checks |-> <<>>]
ZodAny == [type |-> "any", checks |-> <<>>]
ZodNever == [type |-> "never", checks |-> <<>>]
ZodLiteral(values) == [type |-> "literal", values |-> values, checks |-> <<>>]
ZodEnum(entries) == [type |-> "enum", entries |-> entries, checks |-> <<>>]
ZodCustom(fn, abort) ==
  [type |-> "custom", fn |-> fn, abort |-> abort, when |-> "none", checks |-> <<>>]
ZodTransform(fn) == [type |-> "transform", transform |-> fn, checks |-> <<>>]
ZodOptional(innerType) == [type |-> "optional", innerType |-> innerType, checks |-> <<>>]
ZodDefault(innerType, v) ==
  [type |-> "default", innerType |-> innerType, defaultValue |-> v, checks |-> <<>>]
ZodCatch(innerType, v) ==
  [type |-> "catch", innerType |-> innerType, catchValue |-> v, checks |-> <<>>]
ZodReadonly(innerType) == [type |-> "readonly", innerType |-> innerType, checks |-> <<>>]
ZodPipe(in, out) == [type |-> "pipe", in |-> in, out |-> out, checks |-> <<>>]
ZodArray(element) == [type |-> "array", element |-> element, checks |-> <<>>]
ZodObject(keys, shape, optional, catchall) ==
  [type |-> "object", keys |-> keys, shape |-> shape, optional |-> optional,
   catchall |-> catchall, checks |-> <<>>]
ZodUnion(options) == [type |-> "union", options |-> options, checks |-> <<>>]
ZodDiscriminatedUnion(options, unionFallback) ==
  [type |-> "union", options |-> options, checks |-> <<>>,
   discriminated |-> TRUE, unionFallback |-> unionFallback]
ZodIntersection(left, right) ==
  [type |-> "intersection", left |-> left, right |-> right, checks |-> <<>>]
ZodRecord(keyType, valueType) ==
  [type |-> "record", keyType |-> keyType, valueType |-> valueType, checks |-> <<>>]
\* rest is NoNode for a tuple without a rest node.
ZodTuple(items, rest) ==
  [type |-> "tuple", items |-> items, rest |-> rest, checks |-> <<>>]
ZodPromise(innerType) == [type |-> "promise", innerType |-> innerType, checks |-> <<>>]

IsDiscriminatedUnion(n) == n.type = "union" /\ "discriminated" \in DOMAIN n

\* The checks run() iterates: def.checks, preceded by the node itself when it
\* is a check.
checksOf(n) == IF n.type = "custom" THEN <<n>> \o n.checks ELSE n.checks

(***************************************************************************)
(* Derived data: _zod.values (in the Set's insertion order) and _zod.disc. *)
(***************************************************************************)
NoValues == [has |-> FALSE, seq |-> <<>>]
SomeValues(seq) == [has |-> TRUE, seq |-> seq]

\* new Set([...seq, v])
SetAdd(seq, v) == IF v \in SeqRange(seq) THEN seq ELSE Append(seq, v)

RECURSIVE SetAddAll(_, _)
SetAddAll(seq, more) ==
  IF more = <<>> THEN seq ELSE SetAddAll(SetAdd(seq, Head(more)), Tail(more))

RECURSIVE values(_)
RECURSIVE unionValues(_, _)
unionValues(options, acc) ==
  IF options = <<>> THEN acc
  ELSE unionValues(Tail(options), SetAddAll(acc, values(Head(options)).seq))

values(n) ==
  CASE n.type = "undefined" -> SomeValues(<<Undef>>)
    [] n.type = "literal" -> SomeValues(SetAddAll(<<>>, n.values))
    [] n.type = "enum" -> SomeValues(SetAddAll(<<>>, n.entries))
    [] n.type = "optional" ->
         IF values(n.innerType).has
         THEN SomeValues(SetAdd(values(n.innerType).seq, Undef)) ELSE NoValues
    [] n.type \in {"default", "catch"} -> values(n.innerType)
    [] n.type = "union" ->
         IF \A i \in DOMAIN n.options : values(n.options[i]).has
         THEN SomeValues(unionValues(n.options, <<>>)) ELSE NoValues
    [] OTHER -> NoValues

NoDisc == [has |-> FALSE, entries |-> <<>>]

RECURSIVE disc(_)
RECURSIVE objectDisc(_, _, _)
objectDisc(n, i, acc) ==
  IF i > Len(n.keys) THEN acc
  ELSE LET key == n.keys[i]
           field == n.shape[key]
           o == [key |-> key, values |-> values(field).seq,
                 maps |-> IF disc(field).has THEN <<disc(field).entries>> ELSE <<>>]
       IN IF values(field).has \/ disc(field).has
          THEN objectDisc(n, i + 1, Append(acc, o))
          ELSE objectDisc(n, i + 1, acc)

\* _disc.set / _o.values.add / _o.maps.push of one entry of an option's map.
mergeDiscEntry(acc, o) ==
  IF \E j \in DOMAIN acc : acc[j].key = o.key
  THEN [j \in DOMAIN acc |->
          IF acc[j].key = o.key
          THEN [key |-> o.key, values |-> SetAddAll(acc[j].values, o.values),
                maps |-> acc[j].maps \o o.maps]
          ELSE acc[j]]
  ELSE Append(acc, [key |-> o.key, values |-> SetAddAll(<<>>, o.values), maps |-> o.maps])

RECURSIVE mergeDisc(_, _)
mergeDisc(acc, entries) ==
  IF entries = <<>> THEN acc
  ELSE mergeDisc(mergeDiscEntry(acc, Head(entries)), Tail(entries))

RECURSIVE unionDisc(_, _)
unionDisc(options, acc) ==
  IF options = <<>> THEN acc
  ELSE unionDisc(Tail(options), mergeDisc(acc, disc(Head(options)).entries))

disc(n) ==
  CASE n.type = "object" ->
         LET entries == objectDisc(n, 1, <<>>)
         IN IF entries = <<>> THEN NoDisc ELSE [has |-> TRUE, entries |-> entries]
    [] IsDiscriminatedUnion(n) -> [has |-> TRUE, entries |-> unionDisc(n.options, <<>>)]
    [] OTHER -> NoDisc

RECURSIVE matchDiscriminators(_, _)
matchDiscriminators(inp, discs) ==
  \E i \in DOMAIN discs :
    LET data == Get(inp, discs[i].key)
    IN \/ data \in SeqRange(discs[i].values)
       \/ \E j \in DOMAIN discs[i].maps : matchDiscriminators(data, discs[i].maps[j])


(***************************************************************************)
(* The parse context.  async === false requires synchronous execution,     *)
(* async === true permits Promises, and the context {} of the standard     *)
(* validate has no async property at all; noPrecompilation selects the     *)
(* generic object loop.                                                    *)
(***************************************************************************)
SyncCtx == [async |-> FALSE, noPrecompilation |-> FALSE]
NoPrecompCtx == [async |-> FALSE, noPrecompilation |-> TRUE]
AsyncCtx == [async |-> TRUE, noPrecompilation |-> FALSE]
EmptyCtx == <<>>

\* ctx.async === false, and ctx.async read as a condition.
asyncIsFalse(ctx) == "async" \in DOMAIN ctx /\ ctx.async = FALSE
asyncIsTruthy(ctx) == "async" \in DOMAIN ctx /\ ctx.async = TRUE

\* util.allowsEval.value: new Function("") succeeds.
allowsEval == TRUE

RECURSIVE run(_, _, _)

(***************************************************************************)
(* $ZodType: runChecks.                                                    *)
(***************************************************************************)
\* A result whose returned payload now holds these issues.
WithIssues(res, issues) ==
  [res EXCEPT !.issues = issues, !.argi = IF res.same THEN issues ELSE @]

\* A result whose returned payload now holds this value.
WithValue(res, value) ==
  [res EXCEPT !.value = value, !.argv = IF res.same THEN value ELSE @]

\* handleRefineResult: a falsy answer of fn pushes one custom issue.
handleRefineResult(r, issues, inp, inst) ==
  IF ~r
  THEN Append(issues, [RawIssue("custom", "", inp, inst) EXCEPT !.cont = ~inst.abort])
  ELSE issues

\* ch._zod.when(payload), for a check that has a when predicate.
whenHolds(ch, res) ==
  CASE ch.when = "always" -> TRUE
    [] ch.when = "isString" -> res.value.k = "string"
    [] OTHER -> FALSE

\* The entry of the check loop's log for this check.
Traced(res, ch, invoked) ==
  [res EXCEPT !.trace = Append(@, [check |-> ch, value |-> res.value, issues |-> res.issues,
                                   invoked |-> invoked])]

\* The time the Promise of an asynchronous function takes to settle for
\* this argument: 0 when it is settled as soon as it is returned.
Delay(fn, v) == fn.delay + (IF v \in fn.slow THEN 1 ELSE 0)

\* asyncResult.then(() => payload) where asyncResult is Promise.resolve():
\* the Promise returned settles in the microtasks after the loop, behind the
\* pushes of the checks whose own Promise was settled already and ahead of
\* every other one.
Resolved(res) ==
  IF ~res.promise THEN res
  ELSE [WithIssues(res, res.issues \o PushedBy(res.late, 0))
          EXCEPT !.late = PendingAfter(res.late, 0)]

\* The loop over the checks.  res.promise stands for asyncResult: once it is
\* set, the update of isAborted is put off to a callback and no longer
\* reaches the checks that follow in the loop.
RECURSIVE runChecksFrom(_, _, _, _, _)
runChecksFrom(res, checks, ctx, i, isAborted) ==
  IF i > Len(checks) THEN Resolved(res)
  ELSE
    LET ch == checks[i]
        skipped == IF ch.when # "none" THEN ~whenHolds(ch, res) ELSE isAborted
        currLen == Len(res.issues)
        r == res.value \in ch.fn.accepts
        issues == handleRefineResult(r, res.issues, res.value, ch)
        pushed == handleRefineResult(r, <<>>, res.value, ch)
        nextLen == Len(issues)
        nextAborted ==
          IF nextLen = currLen THEN isAborted
          ELSE IF ~isAborted THEN aborted(issues, currLen) ELSE isAborted
    IN IF skipped THEN runChecksFrom(Traced(res, ch, FALSE), checks, ctx, i + 1, isAborted)
       ELSE IF ch.fn.async
       THEN IF asyncIsFalse(ctx) THEN Thrown(AsyncError, res.calls)
            ELSE runChecksFrom([Traced(res, ch, TRUE) EXCEPT
                                  !.promise = TRUE,
                                  !.late = @ \o Later(Delay(ch.fn, res.value), pushed)],
                               checks, ctx, i + 1, isAborted)
       ELSE runChecksFrom(WithIssues(Traced(res, ch, TRUE), issues), checks, ctx, i + 1,
                          IF res.promise THEN isAborted ELSE nextAborted)

\* runChecks that starts its loop as if the payload held no issue.
runChecksNeverAborted(res, checks, ctx) ==
  runChecksFrom([res EXCEPT !.trace = <<>>], checks, ctx, 1, FALSE)

runChecks(res, checks, ctx) ==
  runChecksFrom([res EXCEPT !.trace = <<>>], checks, ctx, 1, aborted(res.issues, 0))

(***************************************************************************)
(* Primitive nodes.                                                        *)
(***************************************************************************)
InvalidType(n, payload, expected) ==
  Same(payload.value,
       Append(payload.issues, RawIssue("invalid_type", expected, payload.value, n)), <<>>)

Unchanged(payload) == Same(payload.value, payload.issues, <<>>)

parseString(n, payload, ctx) ==
  IF payload.value.k = "string" THEN Unchanged(payload)
  ELSE InvalidType(n, payload, "string")

parseNumber(n, payload, ctx) ==
  IF payload.value.k = "number" THEN Unchanged(payload)
  ELSE InvalidType(n, payload, "number")

parseUndefined(n, payload, ctx) ==
  IF payload.value.k = "undefined" THEN Unchanged(payload)
  ELSE InvalidType(n, payload, "undefined")

parseAny(n, payload, ctx) == Unchanged(payload)

parseNever(n, payload, ctx) == InvalidType(n, payload, "never")

InvalidValue(n, payload, vals) ==
  Same(payload.value,
       Append(payload.issues,
              [RawIssue("invalid_value", "", payload.value, n) EXCEPT !.values = vals]),
       <<>>)

parseEnum(n, payload, ctx) ==
  IF payload.value \in SeqRange(values(n).seq) THEN Unchanged(payload)
  ELSE InvalidValue(n, payload, n.entries)

parseLiteral(n, payload, ctx) ==
  IF payload.value \in SeqRange(values(n).seq) THEN Unchanged(payload)
  ELSE InvalidValue(n, payload, n.values)

parseCustom(n, payload, ctx) == Unchanged(payload)

\* parseTransform without the test that the function returned a Promise.
parseTransformAlwaysAsyncError(n, payload, ctx) ==
  IF asyncIsFalse(ctx) THEN Thrown(AsyncError, <<>>)
  ELSE Same(n.transform.out, payload.issues, <<>>)

\* Under a truthy ctx.async the output is awaited, a Promise or not; under
\* any other context a Promise returned by the function is an error.
parseTransform(n, payload, ctx) ==
  IF asyncIsTruthy(ctx)
  THEN [Same(n.transform.out, payload.issues, <<>>) EXCEPT
          !.promise = TRUE,
          !.at = IF n.transform.async THEN Delay(n.transform, payload.value) ELSE 0]
  ELSE IF n.transform.async THEN Thrown(AsyncError, <<>>)
  ELSE Same(n.transform.out, payload.issues, <<>>)

(***************************************************************************)
(* Modifier wrappers.                                                      *)
(***************************************************************************)
\* res, returned when the result from does: as it is when from is a payload,
\* by the callback of from when from is a Promise.
Settling(res, from, late) ==
  [res EXCEPT !.promise = from.promise, !.at = from.at, !.late = late]

\* parseOptional that hands undefined to the inner node like any other value.
parseOptionalRunsInner(n, payload, ctx) == run(n.innerType, payload, ctx)

parseOptional(n, payload, ctx) ==
  IF payload.value = Undef THEN Unchanged(payload)
  ELSE run(n.innerType, payload, ctx)

handleDefaultResult(res, def) ==
  IF res.value = Undef THEN WithValue(res, def.defaultValue) ELSE res

\* parseDefault that passes the default value through the inner node.
parseDefaultValidated(n, payload, ctx) ==
  LET result == run(n.innerType,
                    IF payload.value = Undef
                    THEN [payload EXCEPT !.value = n.defaultValue] ELSE payload, ctx)
  IN IF result.thrown # "none" THEN result ELSE handleDefaultResult(result, n)

parseDefault(n, payload, ctx) ==
  IF payload.value = Undef THEN Same(n.defaultValue, payload.issues, <<>>)
  ELSE LET result == run(n.innerType, payload, ctx)
       IN IF result.thrown # "none" THEN result ELSE handleDefaultResult(result, n)

\* parseCatch that substitutes the value but leaves the issues in place.
parseCatchKeepsIssues(n, payload, ctx) ==
  LET result == run(n.innerType, payload, ctx)
  IN IF result.thrown # "none" THEN result
     ELSE IF Len(result.issues) > 0
     THEN Settling(Same(n.catchValue, result.issues, result.calls), result, <<>>)
     ELSE Settling(Same(result.value, result.argi, result.calls), result,
                   IF result.same THEN result.late ELSE <<>>)

\* The payload returned is the one passed in; it is returned by the callback
\* of the inner Promise when the inner result is one.  Replacing its issues by
\* a new list cuts it off from the pushes still to come.
parseCatch(n, payload, ctx) ==
  LET result == run(n.innerType, payload, ctx)
  IN IF result.thrown # "none" THEN result
     ELSE IF Len(result.issues) > 0
     THEN Settling(Same(n.catchValue, <<>>, result.calls), result, <<>>)
     ELSE Settling(Same(result.value, result.argi, result.calls), result,
                   IF result.same THEN result.late ELSE <<>>)


(***************************************************************************)
(* Composite nodes keep the payload under construction in a record         *)
(* [value, issues, calls, thrown, proms]; a child's throw ends the loop.   *)
(* proms lists the children that returned a Promise, each with the time t  *)
(* it settles and the handler its callback calls.                          *)
(***************************************************************************)
Building(value, issues) ==
  [value |-> value, issues |-> issues, calls |-> <<>>, thrown |-> "none", proms |-> <<>>]

TypeError == "TypeError"

\* The handler a child's result is passed to, with its arguments.
Handler(name, key, inp) == [name |-> name, key |-> key, inp |-> inp]

RECURSIVE awaitAll(_, _)

Max(S) == CHOOSE x \in S : \A y \in S : y <= x

\* The rejected ones among the children that returned a Promise.
Rejected(proms) == SelectSeq(ByTime(proms), LAMBDA p : p.result.thrown # "none")

\* return proms.length ? Promise.all(proms).then(() => payload) : payload.
\* The callbacks run as the children settle; Promise.all rejects with the
\* first rejection.
Finish(st) ==
  IF st.thrown # "none" THEN Thrown(st.thrown, st.calls)
  ELSE IF Len(st.proms) = 0 THEN Same(st.value, st.issues, st.calls)
  ELSE IF Len(Rejected(st.proms)) > 0
  THEN [Thrown(Rejected(st.proms)[1].result.thrown, st.calls) EXCEPT
          !.promise = TRUE, !.at = Rejected(st.proms)[1].t]
  ELSE LET final == awaitAll(st, ByTime(st.proms))
       IN [Same(final.value, final.issues, st.calls) EXCEPT
             !.promise = TRUE, !.at = Max({st.proms[j].t : j \in DOMAIN st.proms})]

\* The state after a child ran: its calls are logged; when it returned a
\* payload, the payload under construction is what the handler made of it,
\* and when it returned a Promise, the handler is left to the callback.
AfterChild(st, r, folded, handler) ==
  IF r.promise
  THEN [st EXCEPT !.calls = @ \o r.calls,
                  !.proms = Append(@, [t |-> r.at, result |-> r, handler |-> handler])]
  ELSE IF r.thrown # "none"
  THEN [st EXCEPT !.calls = @ \o r.calls, !.thrown = r.thrown]
  ELSE [st EXCEPT !.calls = @ \o r.calls, !.value = folded.value, !.issues = folded.issues]

\* A result whose issues are read without asking whether it is a Promise.
Unawaited(r) == IF r.promise THEN Thrown(TypeError, r.calls) ELSE r

(***************************************************************************)
(* $ZodArray.                                                              *)
(***************************************************************************)
\* handleArrayResult that pushes the element's issues as they are.
handleArrayResultNoPrefix(result, final, index) ==
  [value |-> Arr([final.value.xs EXCEPT ![index + 1] = result.value]),
   issues |-> final.issues \o result.issues]

handleArrayResult(result, final, index) ==
  [value |-> Arr([final.value.xs EXCEPT ![index + 1] = result.value]),
   issues |-> IF Len(result.issues) > 0
              THEN final.issues \o prefixIssues(Num(index), result.issues)
              ELSE final.issues]

RECURSIVE arrayLoop(_, _, _, _, _)
arrayLoop(n, inp, ctx, i, st) ==
  IF i >= Len(inp.xs) \/ st.thrown # "none" THEN st
  ELSE LET result == run(n.element, Fresh(inp.xs[i + 1]), ctx)
       IN arrayLoop(n, inp, ctx, i + 1,
                    AfterChild(st, result, handleArrayResult(result, st, i),
                                 Handler("handleArrayResult", i, inp)))

parseArray(n, payload, ctx) ==
  IF payload.value.k # "array" THEN InvalidType(n, payload, "array")
  ELSE Finish(arrayLoop(n, payload.value, ctx, 0,
                        Building(Arr([i \in DOMAIN payload.value.xs |-> Undef]),
                                 payload.issues)))

(***************************************************************************)
(* $ZodObjectLike.                                                         *)
(***************************************************************************)
handleObjectResult(result, final, key) ==
  IF Len(result.issues) > 0
  THEN [value |-> final.value,
        issues |-> final.issues \o prefixIssues(Str(key), result.issues)]
  ELSE [value |-> SetProp(final.value, key, result.value), issues |-> final.issues]

\* handleOptionalObjectResult that reports the issues of the child whatever
\* the raw input under the key is.
handleOptionalObjectResultReports(result, final, key, inp) ==
  IF Len(result.issues) > 0
  THEN [value |-> final.value,
        issues |-> final.issues \o prefixIssues(Str(key), result.issues)]
  ELSE [value |-> SetProp(final.value, key, result.value), issues |-> final.issues]

handleOptionalObjectResult(result, final, key, inp) ==
  IF Len(result.issues) > 0
  THEN IF Get(inp, key) = Undef
       THEN IF KeyIn(inp, key)
            THEN [value |-> SetProp(final.value, key, Undef), issues |-> final.issues]
            ELSE [value |-> final.value, issues |-> final.issues]
       ELSE [value |-> final.value,
             issues |-> final.issues \o prefixIssues(Str(key), result.issues)]
  ELSE IF result.value = Undef
  THEN IF KeyIn(inp, key)
       THEN [value |-> SetProp(final.value, key, Undef), issues |-> final.issues]
       ELSE [value |-> final.value, issues |-> final.issues]
  ELSE [value |-> SetProp(final.value, key, result.value), issues |-> final.issues]

\* The generic loop: every key of the shape in key order.
RECURSIVE genericLoop(_, _, _, _, _)
genericLoop(n, inp, ctx, i, st) ==
  IF i > Len(n.keys) \/ st.thrown # "none" THEN st
  ELSE LET key == n.keys[i]
           r == run(n.shape[key], Fresh(Get(inp, key)), ctx)
           folded == IF key \in n.optional
                     THEN handleOptionalObjectResult(r, st, key, inp)
                     ELSE handleObjectResult(r, st, key)
       IN genericLoop(n, inp, ctx, i + 1,
                      AfterChild(st, r, folded,
                                 Handler(IF key \in n.optional
                                         THEN "handleOptionalObjectResult"
                                         ELSE "handleObjectResult", key, inp)))

\* generateFastpass, first loop: the required keys are run in key order and
\* their prefixed issues concatenated; st.value collects the properties of the
\* object literal assigned to payload.value after the loop.
fastRequiredResult(r, st, key) ==
  [value |-> Obj(Append(st.value.ks, key), Append(st.value.vs, r.value)),
   issues |-> IF Len(r.issues) > 0
              THEN st.issues \o [j \in DOMAIN r.issues |->
                                   [r.issues[j] EXCEPT !.path = <<Str(key)>> \o @]]
              ELSE st.issues]

RECURSIVE fastRequiredLoop(_, _, _, _, _)
fastRequiredLoop(n, inp, ctx, i, st) ==
  IF i > Len(n.keys) \/ st.thrown # "none" THEN st
  ELSE LET key == n.keys[i]
           r == Unawaited(run(n.shape[key], Fresh(Get(inp, key)), ctx))
       IN IF key \in n.optional THEN fastRequiredLoop(n, inp, ctx, i + 1, st)
          ELSE fastRequiredLoop(n, inp, ctx, i + 1,
                                AfterChild(st, r, fastRequiredResult(r, st, key),
                                           Handler("none", key, inp)))

\* generateFastpass, second loop: the optional keys in key order.
fastOptionalResult(r, st, key, inp) ==
  IF Len(r.issues) > 0
  THEN IF Get(inp, key) = Undef
       THEN IF KeyIn(inp, key)
            THEN [value |-> SetProp(st.value, key, Undef), issues |-> st.issues]
            ELSE [value |-> st.value, issues |-> st.issues]
       ELSE [value |-> st.value,
             issues |-> st.issues \o [j \in DOMAIN r.issues |->
                                        [r.issues[j] EXCEPT !.path = <<Str(key)>> \o @]]]
  ELSE IF r.value = Undef
  THEN IF KeyIn(inp, key)
       THEN [value |-> SetProp(st.value, key, Undef), issues |-> st.issues]
       ELSE [value |-> st.value, issues |-> st.issues]
  ELSE [value |-> SetProp(st.value, key, r.value), issues |-> st.issues]

RECURSIVE fastOptionalLoop(_, _, _, _, _)
fastOptionalLoop(n, inp, ctx, i, st) ==
  IF i > Len(n.keys) \/ st.thrown # "none" THEN st
  ELSE LET key == n.keys[i]
           r == Unawaited(run(n.shape[key], Fresh(Get(inp, key)), ctx))
       IN IF key \notin n.optional THEN fastOptionalLoop(n, inp, ctx, i + 1, st)
          ELSE fastOptionalLoop(n, inp, ctx, i + 1,
                                AfterChild(st, r, fastOptionalResult(r, st, key, inp),
                                           Handler("none", key, inp)))

generateFastpass(n, inp, ctx, st) ==
  fastOptionalLoop(n, inp, ctx, 1,
                   fastRequiredLoop(n, inp, ctx, 1, [st EXCEPT !.value = EmptyObj]))

\* The loop over the input keys that reports every key outside the shape as
\* unrecognized, whatever the catchall is.
RECURSIVE catchallLoopReportsAll(_, _, _, _, _, _)
catchallLoopReportsAll(n, inp, ctx, i, st, unrecognized) ==
  IF i > Len(OwnKeys(inp))
  THEN IF Len(unrecognized) > 0
       THEN [st EXCEPT !.issues =
               Append(@, [RawIssue("unrecognized_keys", "", inp, n)
                            EXCEPT !.keys = unrecognized])]
       ELSE st
  ELSE IF OwnKeys(inp)[i] \in SeqRange(n.keys)
  THEN catchallLoopReportsAll(n, inp, ctx, i + 1, st, unrecognized)
  ELSE catchallLoopReportsAll(n, inp, ctx, i + 1, st, Append(unrecognized, OwnKeys(inp)[i]))

\* The input keys outside the shape: collected for a never catchall,
\* validated by any other catchall.
RECURSIVE catchallLoop(_, _, _, _, _, _)
catchallLoop(n, inp, ctx, i, st, unrecognized) ==
  IF st.thrown # "none" THEN st
  ELSE IF i > Len(OwnKeys(inp))
  THEN IF Len(unrecognized) > 0
       THEN [st EXCEPT !.issues =
               Append(@, [RawIssue("unrecognized_keys", "", inp, n)
                            EXCEPT !.keys = unrecognized])]
       ELSE st
  ELSE LET key == OwnKeys(inp)[i]
           r == run(n.catchall, Fresh(Get(inp, key)), ctx)
       IN IF key \in SeqRange(n.keys) THEN catchallLoop(n, inp, ctx, i + 1, st, unrecognized)
          ELSE IF n.catchall.type = "never"
          THEN catchallLoop(n, inp, ctx, i + 1, st, Append(unrecognized, key))
          ELSE catchallLoop(n, inp, ctx, i + 1,
                            AfterChild(st, r, handleObjectResult(r, st, key),
                                       Handler("handleObjectResult", key, inp)),
                            unrecognized)

parseObject(n, payload, ctx) ==
  IF ~isObject(payload.value) THEN InvalidType(n, payload, "object")
  ELSE LET inp == payload.value
           st0 == Building(EmptyObj, payload.issues)
           shaped == IF allowsEval /\ asyncIsFalse(ctx) /\ ctx.noPrecompilation # TRUE
                     THEN generateFastpass(n, inp, ctx, st0)
                     ELSE genericLoop(n, inp, ctx, 1, st0)
       IN IF n.catchall = NoNode THEN Finish(shaped)
          ELSE Finish(catchallLoop(n, inp, ctx, 1, shaped, <<>>))


(***************************************************************************)
(* $ZodUnion and $ZodDiscriminatedUnion.                                   *)
(***************************************************************************)
RECURSIVE firstSuccess(_, _)
firstSuccess(results, i) ==
  IF i > Len(results) THEN 0
  ELSE IF Len(results[i].issues) = 0 THEN i
  ELSE firstSuccess(results, i + 1)

\* The loop reads issues.length of every result, which a Promise has not.
handleUnionResults(results, final, inst, calls) ==
  IF \E i \in DOMAIN results : results[i].promise THEN Thrown(TypeError, calls)
  ELSE IF firstSuccess(results, 1) # 0
  THEN Same(results[firstSuccess(results, 1)].value, final.issues, calls)
  ELSE Same(final.value,
            Append(final.issues,
                   [RawIssue("invalid_union", "", final.value, inst) EXCEPT
                      !.errors = [i \in DOMAIN results |->
                                    [j \in DOMAIN results[i].issues |->
                                       finalizeIssue(results[i].issues[j])]]]),
            calls)

\* unionLoop without the return at the first option that has no issue.
RECURSIVE unionLoopRunsAll(_, _, _, _, _, _)
unionLoopRunsAll(n, payload, ctx, i, results, calls) ==
  IF i > Len(n.options) THEN handleUnionResults(results, payload, n, calls)
  ELSE LET result == run(n.options[i], Fresh(payload.value), ctx)
       IN IF result.thrown # "none" /\ ~result.promise
          THEN Thrown(result.thrown, calls \o result.calls)
          ELSE unionLoopRunsAll(n, payload, ctx, i + 1, Append(results, result),
                                calls \o result.calls)

\* The options are run in order on fresh payloads; the first one that returns
\* no issue is returned as it is.
RECURSIVE unionLoop(_, _, _, _, _, _)
unionLoop(n, payload, ctx, i, results, calls) ==
  IF i > Len(n.options) THEN handleUnionResults(results, payload, n, calls)
  ELSE LET result == run(n.options[i], Fresh(payload.value), ctx)
       IN IF result.thrown # "none" /\ ~result.promise
          THEN Thrown(result.thrown, calls \o result.calls)
          ELSE IF ~result.promise /\ Len(result.issues) = 0
          THEN Other(result.value, result.issues, calls \o result.calls,
                     payload.value, payload.issues)
          ELSE unionLoop(n, payload, ctx, i + 1, Append(results, result),
                         calls \o result.calls)

parseUnion(n, payload, ctx) == unionLoop(n, payload, ctx, 1, <<>>, <<>>)

RECURSIVE filterOptions(_, _, _, _)
filterOptions(n, inp, i, acc) ==
  IF i > Len(n.options) THEN acc
  ELSE IF disc(n.options[i]).has
  THEN IF matchDiscriminators(inp, disc(n.options[i]).entries)
       THEN filterOptions(n, inp, i + 1, Append(acc, n.options[i]))
       ELSE filterOptions(n, inp, i + 1, acc)
  ELSE filterOptions(n, inp, i + 1, Append(acc, n.options[i]))

\* parseDiscriminatedUnion that tries every option whenever the discriminator
\* does not select exactly one, whatever unionFallback says.
parseDiscriminatedUnionAlwaysFallback(n, payload, ctx) ==
  IF ~isObject(payload.value) THEN InvalidType(n, payload, "object")
  ELSE LET filteredOptions == filterOptions(n, payload.value, 1, <<>>)
       IN IF Len(filteredOptions) = 1 THEN run(filteredOptions[1], payload, ctx)
          ELSE parseUnion(n, payload, ctx)

parseDiscriminatedUnion(n, payload, ctx) ==
  IF ~isObject(payload.value) THEN InvalidType(n, payload, "object")
  ELSE LET filteredOptions == filterOptions(n, payload.value, 1, <<>>)
       IN IF Len(filteredOptions) = 1 THEN run(filteredOptions[1], payload, ctx)
          ELSE IF n.unionFallback THEN parseUnion(n, payload, ctx)
          ELSE Same(payload.value,
                    Append(payload.issues,
                           [RawIssue("invalid_union", "", payload.value, n) EXCEPT
                              !.note = "No matching discriminator"]),
                    <<>>)

(***************************************************************************)
(* $ZodIntersection.                                                       *)
(***************************************************************************)
Valid(data) == [valid |-> TRUE, data |-> data, mergeErrorPath |-> <<>>]
Invalid(path) == [valid |-> FALSE, data |-> Undef, mergeErrorPath |-> path]

RECURSIVE mergeValues(_, _)
\* mergeObjects that keeps the keys of a only.
mergeObjectsLeftKeys(a, b) ==
  LET sharedKeys == SelectSeq(a.ks, LAMBDA key : key \in SeqRange(b.ks))
      bad == {i \in DOMAIN sharedKeys :
                ~mergeValues(Get(a, sharedKeys[i]), Get(b, sharedKeys[i])).valid}
  IN IF bad # {} THEN Invalid(<<>>)
     ELSE Valid(Obj(a.ks,
                    [i \in DOMAIN a.ks |->
                       IF a.ks[i] \in SeqRange(sharedKeys)
                       THEN mergeValues(Get(a, a.ks[i]), Get(b, a.ks[i])).data
                       ELSE Get(a, a.ks[i])]))

mergeObjects(a, b) ==
  LET sharedKeys == SelectSeq(a.ks, LAMBDA key : key \in SeqRange(b.ks))
      bad == {i \in DOMAIN sharedKeys :
                ~mergeValues(Get(a, sharedKeys[i]), Get(b, sharedKeys[i])).valid}
      newKeys == a.ks \o SelectSeq(b.ks, LAMBDA key : key \notin SeqRange(a.ks))
      first == CHOOSE i \in bad : \A j \in bad : i <= j
  IN IF bad # {}
     THEN Invalid(<<Str(sharedKeys[first])>> \o
                  mergeValues(Get(a, sharedKeys[first]),
                              Get(b, sharedKeys[first])).mergeErrorPath)
     ELSE Valid(Obj(newKeys,
                    [i \in DOMAIN newKeys |->
                       IF newKeys[i] \in SeqRange(sharedKeys)
                       THEN mergeValues(Get(a, newKeys[i]), Get(b, newKeys[i])).data
                       ELSE IF KeyIn(b, newKeys[i]) THEN Get(b, newKeys[i])
                       ELSE Get(a, newKeys[i])]))

mergeArrays(a, b) ==
  LET bad == {i \in DOMAIN a.xs : ~mergeValues(a.xs[i], b.xs[i]).valid}
      first == CHOOSE i \in bad : \A j \in bad : i <= j
  IN IF Len(a.xs) # Len(b.xs) THEN Invalid(<<>>)
     ELSE IF bad # {}
     THEN Invalid(<<Num(first - 1)>> \o mergeValues(a.xs[first], b.xs[first]).mergeErrorPath)
     ELSE Valid(Arr([i \in DOMAIN a.xs |-> mergeValues(a.xs[i], b.xs[i]).data]))

\* a === b is decided structurally: for two distinct but equal plain objects
\* or arrays the later branches produce the same merged value.
mergeValues(a, b) ==
  IF a = b THEN Valid(a)
  ELSE IF isPlainObject(a) /\ isPlainObject(b) THEN mergeObjects(a, b)
  ELSE IF a.k = "array" /\ b.k = "array" THEN mergeArrays(a, b)
  ELSE Invalid(<<>>)

handleIntersectionResults(result, left, right, calls) ==
  LET issues == result.issues \o left.issues \o right.issues
      merged == mergeValues(left.value, right.value)
  IN IF aborted(issues, 0) THEN Same(result.value, issues, calls)
     ELSE IF ~merged.valid THEN Thrown(UnmergableError, calls)
     ELSE Same(merged.data, issues, calls)

\* A result as Promise.all finds it at time t: its payload with the issues
\* pushed by then.
SettledAt(res, t) == [res EXCEPT !.issues = @ \o PushedBy(res.late, t)]

\* Promise.all([left, right]).then(...): both results are handled when the
\* later one has settled; a rejection, or a throw of the callback, rejects.
awaitIntersection(payload, left, right, calls) ==
  LET leftRejected == left.promise /\ left.thrown # "none"
      rightRejected == right.promise /\ right.thrown # "none"
      t == Max({IF left.promise THEN left.at ELSE 0, IF right.promise THEN right.at ELSE 0})
  IN IF leftRejected /\ (~rightRejected \/ left.at <= right.at)
     THEN [Thrown(left.thrown, calls) EXCEPT !.promise = TRUE, !.at = left.at]
     ELSE IF rightRejected
     THEN [Thrown(right.thrown, calls) EXCEPT !.promise = TRUE, !.at = right.at]
     ELSE [handleIntersectionResults(payload, SettledAt(left, t), SettledAt(right, t), calls)
             EXCEPT !.promise = TRUE, !.at = t]

parseIntersection(n, payload, ctx) ==
  LET left == run(n.left, Fresh(payload.value), ctx)
      right == run(n.right, Fresh(payload.value), ctx)
      calls == left.calls \o right.calls
  IN IF left.thrown # "none" /\ ~left.promise THEN left
     ELSE IF right.thrown # "none" /\ ~right.promise THEN Thrown(right.thrown, calls)
     ELSE IF left.promise \/ right.promise THEN awaitIntersection(payload, left, right, calls)
     ELSE handleIntersectionResults(payload, left, right, calls)

(***************************************************************************)
(* $ZodRecord.                                                             *)
(***************************************************************************)
AsyncKeyError == "Async schemas not supported in object keys currently"

\* The property key a string or number value is used as.
PropertyKey(v) == IF v.k = "number" THEN IndexKeys[v.n + 1] ELSE v.s

\* What is done with the result of a value under a key of the value set.
handleRecordValue(result, final, key) ==
  [value |-> SetProp(final.value, PropertyKey(key), result.value),
   issues |-> IF Len(result.issues) > 0
              THEN final.issues \o prefixIssues(key, result.issues)
              ELSE final.issues]

\* What is done with the result of a value under an own key of the input.
handleRecordEntry(result, final, key, keyValue) ==
  IF Len(result.issues) > 0
  THEN [value |-> final.value,
        issues |-> final.issues \o prefixIssues(Str(key), result.issues)]
  ELSE [value |-> SetProp(final.value, PropertyKey(keyValue), result.value),
        issues |-> final.issues]

\* The keys of the key schema's value set, in the set's order.
RECURSIVE recordValuesLoop(_, _, _, _, _)
recordValuesLoop(n, inp, ctx, i, st) ==
  IF i > Len(values(n.keyType).seq) \/ st.thrown # "none" THEN st
  ELSE LET key == values(n.keyType).seq[i]
           result == run(n.valueType, Fresh(Get(inp, PropertyKey(key))), ctx)
       IN IF key.k \in {"string", "number"}
          THEN recordValuesLoop(n, inp, ctx, i + 1,
                                AfterChild(st, result, handleRecordValue(result, st, key),
                                           Handler("handleRecordValue", key, inp)))
          ELSE recordValuesLoop(n, inp, ctx, i + 1, st)

recordUnrecognized(n, inp, st) ==
  LET unrecognized == SelectSeq(OwnKeys(inp),
                                LAMBDA key : Str(key) \notin SeqRange(values(n.keyType).seq))
  IN IF st.thrown = "none" /\ Len(unrecognized) > 0
     THEN [st EXCEPT !.issues =
             Append(@, [RawIssue("unrecognized_keys", "", inp, n)
                          EXCEPT !.keys = unrecognized])]
     ELSE st

\* Without a value set: every own key is validated by the key schema, then
\* its value by the value schema.
RECURSIVE recordKeysLoop(_, _, _, _, _)
recordKeysLoop(n, inp, ctx, i, st) ==
  IF i > Len(OwnKeys(inp)) \/ st.thrown # "none" THEN st
  ELSE LET key == OwnKeys(inp)[i]
           keyResult == run(n.keyType, Fresh(Str(key)), ctx)
           result == run(n.valueType, Fresh(Get(inp, key)), ctx)
           invalidKey == [RawIssue("invalid_key", "", Str(key), n) EXCEPT
                            !.origin = "record", !.path = <<Str(key)>>,
                            !.issues = [j \in DOMAIN keyResult.issues |->
                                          finalizeIssue(keyResult.issues[j])]]
           afterKey == [st EXCEPT !.calls = @ \o keyResult.calls]
       IN IF key = "__proto__" THEN recordKeysLoop(n, inp, ctx, i + 1, st)
          ELSE IF keyResult.promise THEN [afterKey EXCEPT !.thrown = AsyncKeyError]
          ELSE IF keyResult.thrown # "none"
          THEN [afterKey EXCEPT !.thrown = keyResult.thrown]
          ELSE IF Len(keyResult.issues) > 0
          THEN recordKeysLoop(n, inp, ctx, i + 1,
                              [afterKey EXCEPT !.issues = Append(@, invalidKey)])
          ELSE recordKeysLoop(n, inp, ctx, i + 1,
                              AfterChild(afterKey, result,
                                         handleRecordEntry(result, afterKey, key, keyResult.value),
                                         Handler("handleRecordEntry", key, keyResult.value)))

parseRecord(n, payload, ctx) ==
  IF ~isPlainObject(payload.value) THEN InvalidType(n, payload, "record")
  ELSE LET inp == payload.value
           st0 == Building(EmptyObj, payload.issues)
       IN IF values(n.keyType).has
          THEN Finish(recordUnrecognized(n, inp, recordValuesLoop(n, inp, ctx, 1, st0)))
          ELSE Finish(recordKeysLoop(n, inp, ctx, 1, st0))

(***************************************************************************)
(* $ZodTuple.                                                              *)
(***************************************************************************)
\* _zod.qout === "true": set by $ZodOptional, copied from its inner type by
\* $ZodCatch and $ZodReadonly.
RECURSIVE qout(_)
qout(n) ==
  CASE n.type = "optional" -> TRUE
    [] n.type \in {"catch", "readonly"} -> qout(n.innerType)
    [] OTHER -> FALSE

\* [...items].reverse().findIndex((item) => item._zod.qout !== "true"):
\* -1 when no item is found.
reverseFindIndex(items) ==
  LET found == {j \in 0 .. Len(items) - 1 : ~qout(items[Len(items) - j])}
  IN IF found = {} THEN -1 ELSE CHOOSE j \in found : \A k \in found : j <= k

optStart(items) == Len(items) - reverseFindIndex(items)

\* final.value[index] = v on an array: the positions between its end and
\* index are holes, which read as undefined.
SetIndex(arr, index, v) ==
  Arr([j \in 1 .. Max({Len(arr.xs), index + 1}) |->
         IF j = index + 1 THEN v
         ELSE IF j <= Len(arr.xs) THEN arr.xs[j] ELSE Undef])

handleTupleResult(result, final, index) ==
  IF Len(result.issues) > 0
  THEN [value |-> final.value,
        issues |-> final.issues \o prefixIssues(Num(index), result.issues)]
  ELSE [value |-> SetIndex(final.value, index, result.value), issues |-> final.issues]

\* The value of the variable i once both loops are over.  The callback of a
\* Promise reads i when it is called, not when it was created.
lastIndex(n, xs) ==
  Len(n.items) - 1 +
    (IF n.rest # NoNode /\ Len(xs) > Len(n.items) THEN Len(xs) - Len(n.items) ELSE 0)

\* input[i] of the input array.
At(xs, i) == IF i < Len(xs) THEN xs[i + 1] ELSE Undef

\* The loop over the items; i counts from 0.
RECURSIVE tupleItemsLoop(_, _, _, _, _)
tupleItemsLoop(n, xs, ctx, i, st) ==
  IF i >= Len(n.items) \/ st.thrown # "none" THEN st
  ELSE IF i >= Len(xs) /\ i >= optStart(n.items)
  THEN tupleItemsLoop(n, xs, ctx, i + 1, st)
  ELSE LET result == run(n.items[i + 1], Fresh(At(xs, i)), ctx)
       IN tupleItemsLoop(n, xs, ctx, i + 1,
                         AfterChild(st, result, handleTupleResult(result, st, i),
                                    Handler("handleTupleResult", lastIndex(n, xs), xs)))

\* The loop over input.slice(items.length).
RECURSIVE tupleRestLoop(_, _, _, _, _)
tupleRestLoop(n, xs, ctx, i, st) ==
  IF i >= Len(xs) \/ st.thrown # "none" THEN st
  ELSE LET result == run(n.rest, Fresh(At(xs, i)), ctx)
       IN tupleRestLoop(n, xs, ctx, i + 1,
                        AfterChild(st, result, handleTupleResult(result, st, i),
                                   Handler("handleTupleResult", lastIndex(n, xs), xs)))

parseTuple(n, payload, ctx) ==
  IF payload.value.k # "array" THEN InvalidType(n, payload, "tuple")
  ELSE LET xs == payload.value.xs
           tooBig == Len(xs) > Len(n.items)
           tooSmall == Len(xs) < optStart(n.items) - 1
           st0 == Building(Arr(<<>>), payload.issues)
           items == tupleItemsLoop(n, xs, ctx, 0, st0)
       IN IF n.rest = NoNode /\ (tooBig \/ tooSmall)
          THEN Same(Arr(<<>>),
                    Append(payload.issues,
                           IF tooBig
                           THEN [RawIssue("too_big", "", payload.value, n) EXCEPT
                                   !.origin = "array", !.maximum = Len(n.items)]
                           ELSE [RawIssue("too_small", "", payload.value, n) EXCEPT
                                   !.origin = "array", !.minimum = Len(n.items)]),
                    <<>>)
          ELSE IF n.rest = NoNode THEN Finish(items)
          ELSE Finish(tupleRestLoop(n, xs, ctx, Len(n.items), items))

(***************************************************************************)
(* $ZodPromise.                                                            *)
(***************************************************************************)
\* Promise.resolve(payload.value).then((inner) => run(...)): a Promise under
\* every context; the inner node runs in its callback, so that what it throws
\* rejects the Promise.
parsePromise(n, payload, ctx) ==
  LET result == run(n.innerType, Fresh(payload.value), ctx)
  IN [result EXCEPT !.promise = TRUE, !.same = FALSE,
                    !.argv = payload.value, !.argi = payload.issues]

(***************************************************************************)
(* The callbacks of the children that returned a Promise, in the order in  *)
(* which they are called.                                                  *)
(***************************************************************************)
Handled(final, p) ==
  CASE p.handler.name = "handleArrayResult" ->
         handleArrayResult(p.result, final, p.handler.key)
    [] p.handler.name = "handleObjectResult" ->
         handleObjectResult(p.result, final, p.handler.key)
    [] p.handler.name = "handleOptionalObjectResult" ->
         handleOptionalObjectResult(p.result, final, p.handler.key, p.handler.inp)
    [] p.handler.name = "handleTupleResult" ->
         handleTupleResult(p.result, final, p.handler.key)
    [] p.handler.name = "handleRecordValue" ->
         handleRecordValue(p.result, final, p.handler.key)
    [] p.handler.name = "handleRecordEntry" ->
         handleRecordEntry(p.result, final, p.handler.key, p.handler.inp)

awaitAll(final, proms) ==
  IF proms = <<>> THEN final
  ELSE LET next == Handled(final, Head(proms))
       IN awaitAll([final EXCEPT !.value = next.value, !.issues = next.issues], Tail(proms))

(***************************************************************************)
(* $ZodReadonly.                                                           *)
(***************************************************************************)
\* payload.value = Object.freeze(payload.value); as the callback of a
\* pending inner result it is applied when that has settled.
handleReadonlyResult(payload) ==
  IF payload.thrown # "none" THEN payload
  ELSE [payload EXCEPT !.value = freeze(@)]

parseReadonly(n, payload, ctx) == handleReadonlyResult(run(n.innerType, payload, ctx))

(***************************************************************************)
(* $ZodPipe.                                                               *)
(***************************************************************************)
\* The result of the second node as the result of the pipe: the payload it
\* returns is not the one the pipe was given, which stays as the first node
\* left it.
Piped(left, right) ==
  [right EXCEPT !.calls = left.calls \o @, !.same = FALSE,
                !.argv = left.argv, !.argi = left.argi]

handlePipeResult(left, def, ctx) ==
  IF aborted(left.issues, 0) THEN left
  ELSE Piped(left, run(def.out, [value |-> left.value, issues |-> left.issues], ctx))

\* left.then((left) => handlePipeResult(left, def, ctx)): the second node
\* is run when the first has settled.
thenPipe(left, right) ==
  [right EXCEPT !.promise = TRUE, !.at = left.at + @,
                !.late = left.late \o Delayed(@, left.at)]

afterIn(left, def, ctx) ==
  IF left.thrown # "none" THEN left
  ELSE IF left.promise
  THEN thenPipe(left, handlePipeResult([left EXCEPT !.promise = FALSE, !.at = 0, !.late = <<>>],
                                       def, ctx))
  ELSE handlePipeResult(left, def, ctx)

parsePipe(n, payload, ctx) == afterIn(run(n.in, payload, ctx), n, ctx)

(***************************************************************************)
(* $ZodType: parse by node kind, and run = parse, then the checks.         *)
(***************************************************************************)
parse(n, payload, ctx) ==
  CASE n.type = "string" -> parseString(n, payload, ctx)
    [] n.type = "number" -> parseNumber(n, payload, ctx)
    [] n.type = "undefined" -> parseUndefined(n, payload, ctx)
    [] n.type = "any" -> parseAny(n, payload, ctx)
    [] n.type = "never" -> parseNever(n, payload, ctx)
    [] n.type = "enum" -> parseEnum(n, payload, ctx)
    [] n.type = "literal" -> parseLiteral(n, payload, ctx)
    [] n.type = "custom" -> parseCustom(n, payload, ctx)
    [] n.type = "transform" -> parseTransform(n, payload, ctx)
    [] n.type = "optional" -> parseOptional(n, payload, ctx)
    [] n.type = "default" -> parseDefault(n, payload, ctx)
    [] n.type = "catch" -> parseCatch(n, payload, ctx)
    [] n.type = "array" -> parseArray(n, payload, ctx)
    [] n.type = "object" -> parseObject(n, payload, ctx)
    [] n.type = "union" /\ ~IsDiscriminatedUnion(n) -> parseUnion(n, payload, ctx)
    [] IsDiscriminatedUnion(n) -> parseDiscriminatedUnion(n, payload, ctx)
    [] n.type = "intersection" -> parseIntersection(n, payload, ctx)
    [] n.type = "record" -> parseRecord(n, payload, ctx)
    [] n.type = "tuple" -> parseTuple(n, payload, ctx)
    [] n.type = "promise" -> parsePromise(n, payload, ctx)
    [] n.type = "pipe" -> parsePipe(n, payload, ctx)
    [] n.type = "readonly" -> parseReadonly(n, payload, ctx)

Entered(n, payload, res) ==
  [res EXCEPT !.calls = <<[node |-> n, value |-> payload.value]>> \o @]

\* result.then((result) => runChecks(result, checks, ctx)): the checks run
\* when the parse has settled, on the payload as it is then.
thenRunChecks(result, checks, ctx) ==
  LET checked == runChecks([result EXCEPT !.promise = FALSE, !.at = 0, !.late = <<>>],
                           checks, ctx)
  IN [checked EXCEPT !.promise = TRUE, !.at = result.at,
                     !.late = result.late \o Delayed(checked.late, result.at)]

\* What run makes of the result of parse: a node without checks has
\* run = parse.
afterParse(result, checks, ctx) ==
  IF Len(checks) = 0 \/ (result.thrown # "none" /\ ~result.promise) THEN result
  ELSE IF result.promise
  THEN IF asyncIsFalse(ctx) THEN Thrown(AsyncError, result.calls)
       ELSE IF result.thrown # "none" THEN result
       ELSE thenRunChecks(result, checks, ctx)
  ELSE runChecks(result, checks, ctx)

run(n, payload, ctx) ==
  Entered(n, payload, afterParse(parse(n, payload, ctx), checksOf(n), ctx))


(***************************************************************************)
(* The top-level entry points wrap run under a synchronous context.  An    *)
(* error thrown inside run propagates to the caller of either entry point, *)
(* and a Promise returned by run is an unexpected-async error.             *)
(***************************************************************************)
NoResult == [done |-> FALSE]

Raised(kind) ==
  [done |-> TRUE, raised |-> kind, success |-> FALSE, data |-> Undef, error |-> <<>>]

Finalized(issues) == [i \in DOMAIN issues |-> finalizeIssue(issues[i])]

\* What an entry point makes of the result of run; failed is what it
\* raises when the payload holds issues ("none": it returns them).
Outcome(result, failed) ==
  IF result.promise THEN Raised(AsyncError)
  ELSE IF result.thrown # "none" THEN Raised(result.thrown)
  ELSE IF Len(result.issues) > 0
  THEN [done |-> TRUE, raised |-> failed, success |-> FALSE, data |-> Undef,
        error |-> Finalized(result.issues)]
  ELSE [done |-> TRUE, raised |-> "none", success |-> TRUE, data |-> result.value,
        error |-> <<>>]

safeParse(schema, value) == Outcome(run(schema, Fresh(value), SyncCtx), "none")

parseThrowing(schema, value) == Outcome(run(schema, Fresh(value), SyncCtx), "$ZodError")

\* "~standard".validate(value): run under the context {}.  The answer is
\* { value } or { issues }, at once or as a Promise; issues is the payload's
\* own list, which the pushes still to come reach, rejected names what a
\* Promise rejects with, and trace is the log of the node's check loop.
Answer(result, pending) ==
  [done |-> TRUE, raised |-> "none", pending |-> pending, at |-> result.at,
   rejected |-> result.thrown,
   form |-> IF Len(result.issues) = 0 THEN "value" ELSE "issues",
   value |-> IF Len(result.issues) = 0 THEN result.value ELSE Undef,
   issues |-> result.issues,
   late |-> IF Len(result.issues) = 0 THEN <<>> ELSE result.late,
   trace |-> result.trace]

Answered(result) ==
  IF result.promise THEN Answer(result, TRUE)
  ELSE IF result.thrown # "none"
  THEN [Answer(result, FALSE) EXCEPT !.raised = result.thrown, !.rejected = "none"]
  ELSE Answer(result, FALSE)

validate(schema, value) == Answered(run(schema, Fresh(value), EmptyCtx))

(***************************************************************************)
(* The nodes and the inputs of the model.                                  *)
(***************************************************************************)
RefineX == ZodCustom([async |-> FALSE, accepts |-> {Str("x")}], FALSE)
RefineAbort == ZodCustom([async |-> FALSE, accepts |-> {Str("x")}], TRUE)
RefineAsync == ZodCustom([async |-> TRUE, accepts |-> {}, delay |-> 0, slow |-> {}], FALSE)

StringNode == ZodString(<<>>)
NumberNode == ZodNumber(<<>>)
StringRefined == ZodString(<<RefineX>>)
StringAborting == ZodString(<<RefineAbort, RefineX>>)
StringAsync == ZodString(<<RefineAsync>>)
Lit1 == ZodLiteral(<<Num(1)>>)
Lit2 == ZodLiteral(<<Num(2)>>)
LitA == ZodLiteral(<<Str("a")>>)
LitB == ZodLiteral(<<Str("b")>>)
EnumXY == ZodEnum(<<Str("x"), Str("y")>>)
TransformT == ZodTransform([async |-> FALSE, out |-> Str("t")])
TransformAsync ==
  ZodTransform([async |-> TRUE, out |-> Str("t"), delay |-> 1, slow |-> {Str("x")}])

Shape1(k1, n1) == k1 :> n1
Shape2(k1, n1, k2, n2) == (k1 :> n1) @@ (k2 :> n2)

ObjA == ZodObject(<<"a">>, Shape1("a", StringNode), {}, NoNode)
ObjB == ZodObject(<<"b">>, Shape1("b", NumberNode), {}, NoNode)
ObjBString == ZodObject(<<"b">>, Shape1("b", StringNode), {}, NoNode)
ObjNested == ZodObject(<<"a">>, Shape1("a", ObjBString), {}, NoNode)
ObjLit1 == ZodObject(<<"a">>, Shape1("a", Lit1), {}, NoNode)
ObjLit2 == ZodObject(<<"a">>, Shape1("a", Lit2), {}, NoNode)
OptionA == ZodObject(<<"type", "v">>, Shape2("type", LitA, "v", StringNode), {}, NoNode)
OptionB == ZodObject(<<"type", "v">>, Shape2("type", LitB, "v", NumberNode), {}, NoNode)

Leaves ==
  {StringNode, NumberNode, StringRefined, StringAborting, StringAsync, Lit1, LitA,
   EnumXY, ZodAny, ZodNever, ZodUndefined, TransformT, TransformAsync,
   ZodCustom([async |-> FALSE, accepts |-> {Str("x")}], FALSE)}

\* The nodes a wrapper is put around.
Inners ==
  {StringNode, NumberNode, StringRefined, StringAsync, Lit1, ZodAny, ZodNever,
   ZodUndefined, TransformT, ZodDefault(StringNode, Str("d")), ObjA,
   ZodArray(StringNode), ZodUnion(<<StringNode, NumberNode>>)}

Recoveries == {Str("d"), Num(1)}

Wrappers ==
  {ZodOptional(t) : t \in Inners}
    \cup {ZodDefault(t, v) : t \in Inners, v \in Recoveries}
    \cup {ZodCatch(t, v) : t \in Inners, v \in Recoveries}

\* Object-like nodes over the keys a and b: both key orders, every set of
\* optional keys, plain and wrapped children, with and without a catchall.
FieldNodes == {StringNode, ZodOptional(StringNode), ZodDefault(StringNode, Str("d"))}

ObjectsAB ==
  {ZodObject(ks, Shape2("a", fa, "b", NumberNode), opt, NoNode) :
     ks \in {<<"a", "b">>, <<"b", "a">>}, fa \in FieldNodes, opt \in SUBSET {"a", "b"}}

Objects ==
  ObjectsAB \cup
  {ObjA, ObjB, ObjNested, ObjLit1, ObjLit2, OptionA, OptionB,
   ZodObject(<<"a">>, Shape1("a", StringNode), {}, ZodNever),
   ZodObject(<<"a">>, Shape1("a", StringNode), {"a"}, StringNode),
   ZodObject(<<"a">>, Shape1("a", StringAsync), {}, NoNode)}

Arrays ==
  {ZodArray(StringNode), ZodArray(NumberNode), ZodArray(ObjA),
   ZodArray(ZodArray(NumberNode)), ZodArray(StringRefined)}

UnionOptions == {StringNode, NumberNode, Lit1, StringRefined, ObjA, ObjB, TransformT,
                 ZodArray(StringNode)}

Unions ==
  {ZodUnion(<<p[1], p[2]>>) : p \in {q \in UnionOptions \X UnionOptions : q[1] # q[2]}}
    \cup {ZodUnion(<<StringAsync, NumberNode>>), ZodUnion(<<NumberNode, StringAsync>>)}

DiscriminatedUnions ==
  {ZodDiscriminatedUnion(<<OptionA, OptionB>>, FALSE),
   ZodDiscriminatedUnion(<<OptionB, OptionA>>, FALSE),
   ZodDiscriminatedUnion(<<OptionA, OptionB>>, TRUE)}

Intersections ==
  {ZodIntersection(ObjA, ObjB), ZodIntersection(ObjLit1, ObjLit2),
   ZodIntersection(StringNode, NumberNode), ZodIntersection(StringNode, StringRefined),
   ZodIntersection(ZodCatch(StringNode, Str("d")), NumberNode),
   ZodIntersection(ZodArray(StringNode), ZodArray(ZodAny)),
   ZodIntersection(ObjA, ZodObject(<<"a">>, Shape1("a", TransformT), {}, NoNode)),
   ZodIntersection(ZodArray(TransformT), ZodArray(ZodAny)),
   ZodIntersection(StringRefined, TransformT)}

Records ==
  {ZodRecord(EnumXY, NumberNode), ZodRecord(EnumXY, StringNode),
   ZodRecord(ZodLiteral(<<Str("x")>>), NumberNode),
   ZodRecord(ZodLiteral(<<Str("y"), Str("x")>>), ZodArray(NumberNode)),
   ZodRecord(StringNode, NumberNode), ZodRecord(LitA, ZodAny),
   ZodRecord(Lit1, ZodAny), ZodRecord(ZodLiteral(<<Num(1), Str("x")>>), StringNode),
   ZodRecord(StringRefined, NumberNode)}

RECURSIVE SeqsUpTo(_, _)
SeqsUpTo(S, n) ==
  IF n = 0 THEN {<<>>}
  ELSE SeqsUpTo(S, n - 1) \cup
       {Append(s, e) : s \in {t \in SeqsUpTo(S, n - 1) : Len(t) = n - 1}, e \in S}

\* Tuples of up to MaxLen items, with and without a rest node.
TupleItems == {StringNode, NumberNode, ZodOptional(StringNode)}

Tuples ==
  {ZodTuple(items, rest) : items \in SeqsUpTo(TupleItems, MaxLen), rest \in {NoNode, NumberNode}}

\* Pipes whose first node accepts, reports a continuable issue, reports an
\* issue that aborts, or replaces the value, before second nodes of several
\* kinds.
PipeIns == {StringNode, StringRefined, StringAborting, TransformT}

PipeOuts ==
  {StringNode, NumberNode, StringRefined, TransformT, ZodCatch(StringNode, Str("d")),
   ZodUnion(<<StringNode, NumberNode>>), ZodArray(StringNode), ObjA}

Pipes == {ZodPipe(a, b) : a \in PipeIns, b \in PipeOuts}

Nodes ==
  Leaves \cup Wrappers \cup Objects \cup Arrays \cup Unions \cup DiscriminatedUnions
    \cup Intersections \cup Records \cup Tuples \cup Pipes

Numbers == {Num(i) : i \in 1..MaxNum}

Primitives == {Undef, Str("x"), Str("a")} \cup Numbers

Elements == {Str("x"), Num(1)}

ArrayInputs ==
  {Arr(xs) : xs \in SeqsUpTo(Elements, MaxLen)}
    \cup {Arr(<<Arr(<<Num(1)>>)>>), Arr(<<Obj(<<"a">>, <<Num(1)>>)>>)}

\* An object with the keys of ks, in that order, that have a value in vs.
Absent == [k |-> "absent"]

RECURSIVE ObjectOf(_, _, _)
ObjectOf(ks, vs, acc) ==
  IF ks = <<>> THEN acc
  ELSE IF Head(vs) = Absent THEN ObjectOf(Tail(ks), Tail(vs), acc)
  ELSE ObjectOf(Tail(ks), Tail(vs), Obj(Append(acc.ks, Head(ks)), Append(acc.vs, Head(vs))))

FieldValues == {Absent, Undef, Str("x")} \cup Numbers

ObjectInputs ==
  {ObjectOf(<<"a", "b">>, <<va, vb>>, EmptyObj) : va \in FieldValues, vb \in FieldValues}
    \cup {ObjectOf(<<"b", "a", "c">>, <<Num(1), Str("x"), Str("x")>>, EmptyObj),
          ObjectOf(<<"c", "a", "d">>, <<Num(1), Str("x"), Num(1)>>, EmptyObj),
          Obj(<<"a">>, <<Obj(<<"b">>, <<Num(1)>>)>>),
          Obj(<<"a">>, <<Obj(<<"b">>, <<Str("x")>>)>>)}

TypedInputs ==
  {ObjectOf(<<"type", "v">>, <<t, v>>, EmptyObj) :
     t \in {Str("a"), Str("b"), Str("c"), Absent}, v \in {Absent, Str("x"), Num(1)}}

KeyedInputs ==
  {ObjectOf(<<"x", "y", "z">>, <<vx, vy, vz>>, EmptyObj) :
     vx \in {Absent, Str("x")} \cup Numbers, vy \in {Absent} \cup Numbers,
     vz \in {Absent, Num(1)}}
    \cup {ObjectOf(<<"z", "w", "x">>, <<Num(1), Num(1), Num(1)>>, EmptyObj),
          Obj(<<"1">>, <<Str("x")>>), Obj(<<"1", "x">>, <<Str("x"), Str("x")>>),
          Obj(<<"1", "z">>, <<Str("x"), Num(1)>>)}

Inputs == Primitives \cup ArrayInputs \cup ObjectInputs \cup TypedInputs \cup KeyedInputs

(***************************************************************************)
(* The state machine: a node and an input are given; each entry point is   *)
(* applied to them once, in any order.                                     *)
(***************************************************************************)
Init ==
  /\ node \in Nodes
  /\ input \in Inputs
  /\ safeResult = NoResult
  /\ parseResult = NoResult
  /\ fastRun = NoResult
  /\ genericRun = NoResult
  /\ asyncRun = NoResult
  /\ validateResult = NoResult
  /\ edited = NoResult
  /\ lazy = NoResult

SafeParse ==
  /\ safeResult = NoResult
  /\ safeResult' = safeParse(node, input)
  /\ UNCHANGED <<node, input, parseResult, fastRun, genericRun, asyncRun, validateResult, edited, lazy>>

Parse ==
  /\ parseResult = NoResult
  /\ parseResult' = parseThrowing(node, input)
  /\ UNCHANGED <<node, input, safeResult, fastRun, genericRun, asyncRun, validateResult, edited, lazy>>

\* node._zod.run({ value: input, issues: [] }, { async: false })
RunFast ==
  /\ fastRun = NoResult
  /\ fastRun' = [done |-> TRUE, res |-> run(node, Fresh(input), SyncCtx)]
  /\ UNCHANGED <<node, input, safeResult, parseResult, genericRun, asyncRun, validateResult, edited, lazy>>

\* node._zod.run({ value: input, issues: [] }, { async: false, noPrecompilation: true })
RunGeneric ==
  /\ genericRun = NoResult
  /\ genericRun' = [done |-> TRUE, res |-> run(node, Fresh(input), NoPrecompCtx)]
  /\ UNCHANGED <<node, input, safeResult, parseResult, fastRun, asyncRun, validateResult, edited, lazy>>

Next == SafeParse \/ Parse \/ RunFast \/ RunGeneric

Spec == Init /\ [][Next]_vars

(***************************************************************************)
(* The nodes and inputs of the asynchronous runs.  An asynchronous         *)
(* function is described by the time its Promise takes to settle: delay,   *)
(* and one unit more for the arguments of slow.                            *)
(***************************************************************************)
Quick(accepts) == [async |-> TRUE, accepts |-> accepts, delay |-> 0, slow |-> {}]
Timed(accepts) == [async |-> TRUE, accepts |-> accepts, delay |-> 1, slow |-> {Str("a")}]

RefineQuick == ZodCustom(Quick({Str("x")}), FALSE)
RefineTimed == ZodCustom(Timed({Str("x")}), FALSE)
RefineTimedAbort == ZodCustom(Timed({Str("x")}), TRUE)
RefineY == ZodCustom([async |-> FALSE, accepts |-> {Str("y")}], FALSE)
RefineWhenAlways == [RefineY EXCEPT !.when = "always"]
RefineWhenString == [RefineY EXCEPT !.when = "isString"]

CheckLists ==
  {<<RefineQuick>>, <<RefineTimed>>, <<RefineTimed, RefineQuick>>,
   <<RefineTimed, RefineX>>, <<RefineQuick, RefineAbort, RefineX>>,
   <<RefineTimed, RefineAbort, RefineY>>, <<RefineAbort, RefineTimed>>,
   <<RefineTimedAbort, RefineTimed>>, <<RefineAbort, RefineWhenAlways>>,
   <<RefineWhenString, RefineX>>, <<RefineX, RefineY>>, <<RefineAbort, RefineY>>}

CheckedStrings == {ZodString(checks) : checks \in CheckLists}

\* A transform with a check of its own: the check sees the transformed value.
TransformChecked == [TransformAsync EXCEPT !.checks = <<RefineX>>]
PromiseChecked == [ZodPromise(StringNode) EXCEPT !.checks = <<RefineX>>]

AsyncLeaves ==
  CheckedStrings \cup
  {StringNode, NumberNode, TransformT, TransformAsync, TransformChecked,
   ZodPromise(StringNode), ZodPromise(ZodString(<<RefineQuick>>)),
   ZodPromise(TransformAsync), PromiseChecked}

\* The children of the composite nodes.
AsyncChildren ==
  {StringNode, StringRefined, ZodString(<<RefineQuick>>), ZodString(<<RefineTimed>>),
   TransformT, TransformAsync, TransformChecked, ZodPromise(StringNode)}

AsyncWrappers ==
  {ZodOptional(t) : t \in AsyncChildren}
    \cup {ZodDefault(t, Str("d")) : t \in AsyncChildren}
    \cup {ZodCatch(t, Str("d")) : t \in AsyncChildren}

AsyncArrays == {ZodArray(t) : t \in AsyncChildren \cup {NumberNode}}

AsyncObjects ==
  {ZodObject(ks, Shape2("a", fa, "b", fb), opt, NoNode) :
     ks \in {<<"a", "b">>}, fa \in AsyncChildren, fb \in {NumberNode, TransformChecked},
     opt \in {{}, {"a"}}}
    \cup {ZodObject(<<"a">>, Shape1("a", StringNode), {}, TransformChecked)}

AsyncTuples ==
  {ZodTuple(<<a, b>>, rest) :
     a \in AsyncChildren, b \in {NumberNode, TransformChecked, TransformAsync},
     rest \in {NoNode, TransformChecked}}
    \cup {ZodTuple(<<a>>, rest) : a \in AsyncChildren, rest \in {NoNode, TransformAsync}}

AsyncRecords ==
  {ZodRecord(k, v) : k \in {EnumXY, StringNode, ZodString(<<RefineQuick>>)},
                     v \in {NumberNode, TransformChecked, TransformAsync}}

AsyncUnions ==
  {ZodUnion(<<a, b>>) : a \in {StringNode, ZodString(<<RefineQuick>>), TransformAsync},
                        b \in {NumberNode, TransformChecked}}

AsyncIntersections ==
  {ZodIntersection(a, b) :
     a \in {StringNode, ZodString(<<RefineTimed>>), TransformAsync, ZodArray(TransformAsync)},
     b \in {StringRefined, TransformT, TransformChecked, ZodArray(ZodAny)}}

AsyncNodes ==
  AsyncLeaves \cup AsyncWrappers \cup AsyncArrays \cup AsyncObjects \cup AsyncTuples
    \cup AsyncRecords \cup AsyncUnions \cup AsyncIntersections

AsyncElements == {Str("x"), Str("a"), Num(1)}

AsyncInputs ==
  {Undef, Str("x"), Str("a"), Str("y")} \cup Numbers
    \cup {Arr(xs) : xs \in SeqsUpTo(AsyncElements, MaxLen)}
    \cup {ObjectOf(<<"a", "b">>, <<va, vb>>, EmptyObj) :
            va \in {Absent, Undef} \cup AsyncElements, vb \in {Absent} \cup AsyncElements}
    \cup {ObjectOf(<<"x", "y", "z">>, <<vx, vy, vz>>, EmptyObj) :
            vx \in AsyncElements, vy \in {Absent} \cup AsyncElements, vz \in {Absent, Num(1)}}

(***************************************************************************)
(* The state machine of the asynchronous runs: the node is run once under  *)
(* each context, and validated once through the standard interface.        *)
(***************************************************************************)
AsyncInit ==
  /\ node \in AsyncNodes
  /\ input \in AsyncInputs
  /\ safeResult = NoResult
  /\ parseResult = NoResult
  /\ fastRun = NoResult
  /\ genericRun = NoResult
  /\ asyncRun = NoResult
  /\ validateResult = NoResult
  /\ edited = NoResult
  /\ lazy = NoResult

\* node._zod.run({ value: input, issues: [] }, { async: true })
RunAsync ==
  /\ asyncRun = NoResult
  /\ asyncRun' = [done |-> TRUE, res |-> run(node, Fresh(input), AsyncCtx)]
  /\ UNCHANGED <<node, input, safeResult, parseResult, fastRun, genericRun, validateResult, edited, lazy>>

\* node["~standard"].validate(input)
Validate ==
  /\ validateResult = NoResult
  /\ validateResult' = validate(node, input)
  /\ UNCHANGED <<node, input, safeResult, parseResult, fastRun, genericRun, asyncRun, edited, lazy>>

AsyncNext == RunAsync \/ Validate \/ RunFast \/ SafeParse

AsyncSpec == AsyncInit /\ [][AsyncNext]_vars

(***************************************************************************)
(* The structural edits of util: pick, omit, extend, partial, required.    *)
(* A mask is given by its keys in the order for..in visits them.  The      *)
(* outcome of an edit is the node returned (or the error thrown) together  *)
(* with the definition the edited node has after the call.                 *)
(***************************************************************************)
ZodInterface(keys, shape, catchall) ==
  [ZodObject(keys, shape, {}, catchall) EXCEPT !.type = "interface"]
ZodRequired(innerType) == [type |-> "required", innerType |-> innerType, checks |-> <<>>]

UnrecognizedKey == "Unrecognized key"
\* A mask: its keys in for..in order, or no mask at all (undefined).
Mask(keys) == [given |-> TRUE, keys |-> keys]
NoMask == [given |-> FALSE, keys |-> <<>>]

\* schema.clone(def): a new node of the class of schema, made from def.
clone(schema, def) == [def EXCEPT !.type = schema.type]

EditReturned(result, schema) ==
  [done |-> TRUE, thrown |-> "none", result |-> result, schema |-> schema]
EditThrown(kind, schema) ==
  [done |-> TRUE, thrown |-> kind, result |-> NoNode, schema |-> schema]

\* A shape given by its keys in order and the node under each.
ShapeOf(keys, at) == [key \in SeqRange(keys) |-> at[key]]

\* The names of an interface key: key + "?", the tests key[key.length - 1]
\* === "?" and key[0] === "?", key.slice(0, -1) and key.slice(1), over the
\* key names of the model.
FieldNames == {"a", "b", "c", "d"}
Marked(key) == key \o "?"
EndsMarked(key) == \E n \in FieldNames \cup {"?" \o f : f \in FieldNames} : key = n \o "?"
StartsMarked(key) == \E n \in FieldNames \cup {f \o "?" : f \in FieldNames} : key = "?" \o n
DropLast(key) == CHOOSE n \in FieldNames \cup {"?" \o f : f \in FieldNames} : key = n \o "?"
DropFirst(key) == CHOOSE n \in FieldNames \cup {f \o "?" : f \in FieldNames} : key = "?" \o n

pick(schema, mask) ==
  IF \E i \in DOMAIN mask.keys : mask.keys[i] \notin SeqRange(schema.keys)
  THEN EditThrown(UnrecognizedKey, schema)
  ELSE EditReturned(clone(schema, [schema EXCEPT !.keys = mask.keys,
                                                 !.shape = ShapeOf(mask.keys, schema.shape),
                                                 !.checks = <<>>]), schema)

\* omit that deletes the keys from the shape of the schema itself.
omitInPlace(schema, mask) ==
  LET keys == SelectSeq(schema.keys, LAMBDA key : key \notin SeqRange(mask.keys))
      def == [schema EXCEPT !.keys = keys, !.shape = ShapeOf(keys, schema.shape)]
  IN IF \E i \in DOMAIN mask.keys : mask.keys[i] \notin SeqRange(schema.keys)
     THEN EditThrown(UnrecognizedKey, schema)
     ELSE EditReturned(clone(schema, [def EXCEPT !.checks = <<>>]), def)

omit(schema, mask) ==
  LET keys == SelectSeq(schema.keys, LAMBDA key : key \notin SeqRange(mask.keys))
  IN IF \E i \in DOMAIN mask.keys : mask.keys[i] \notin SeqRange(schema.keys)
     THEN EditThrown(UnrecognizedKey, schema)
     ELSE EditReturned(clone(schema, [schema EXCEPT !.keys = keys,
                                                    !.shape = ShapeOf(keys, schema.shape),
                                                    !.checks = <<>>]), schema)

\* { ...schema._def.shape, ...shape }: the keys of the schema in their order,
\* then the new ones; a key of both holds the node of the second.
extend(schema, more) ==
  LET keys == schema.keys \o SelectSeq(more.keys, LAMBDA key : key \notin SeqRange(schema.keys))
  IN EditReturned(clone(schema, [schema EXCEPT
                                   !.keys = keys,
                                   !.shape = [key \in SeqRange(keys) |->
                                                IF key \in SeqRange(more.keys)
                                                THEN more.shape[key] ELSE schema.shape[key]],
                                   !.checks = <<>>]),
                  schema)

\* The shape with every key of the mask (every key, without a mask) wrapped.
Wrapping(schema, mask, type) ==
  [key \in SeqRange(schema.keys) |->
     IF ~mask.given \/ key \in SeqRange(mask.keys)
     THEN IF type = "optional" THEN ZodOptional(schema.shape[key])
          ELSE ZodRequired(schema.shape[key])
     ELSE schema.shape[key]]

partialObject(schema, mask) ==
  EditReturned(clone(schema, [schema EXCEPT !.shape = Wrapping(schema, mask, "optional"),
                                            !.checks = <<>>]), schema)

requiredObject(schema, mask) ==
  EditReturned(clone(schema, [schema EXCEPT !.shape = Wrapping(schema, mask, "required"),
                                            !.checks = <<>>]), schema)

\* The key an interface key is renamed to by partialInterface: a key outside
\* the mask or already marked optional keeps its name.
partialName(key, mask) ==
  IF mask.given /\ key \notin SeqRange(mask.keys) THEN key
  ELSE IF EndsMarked(key) THEN key
  ELSE Marked(key)

\* The key an interface key is renamed to by requiredInterface.
requiredName(key, mask) ==
  IF mask.given /\ key \notin SeqRange(mask.keys) THEN key
  ELSE IF EndsMarked(key) THEN DropLast(key)
  ELSE IF StartsMarked(key) THEN DropFirst(key)
  ELSE key

\* The key an interface key is renamed to by the edit.
NewName(key, mask, edit) ==
  IF edit = "partial" THEN partialName(key, mask) ELSE requiredName(key, mask)

\* delete shape[key]; shape[name] = ...: the keys that keep their name stay
\* where they are, the renamed ones follow in the order of the renaming.
Renamed(schema, mask, edit) ==
  LET kept == SelectSeq(schema.keys, LAMBDA key : NewName(key, mask, edit) = key)
      moved == SelectSeq(schema.keys, LAMBDA key : NewName(key, mask, edit) # key)
      keys == kept \o [j \in DOMAIN moved |-> NewName(moved[j], mask, edit)]
  IN [schema EXCEPT
        !.keys = keys,
        !.shape = [key \in SeqRange(keys) |->
                     IF key \in SeqRange(kept) THEN schema.shape[key]
                     ELSE schema.shape[CHOOSE old \in SeqRange(moved) :
                                         NewName(old, mask, edit) = key]],
        !.checks = <<>>]

partialInterface(schema, mask) ==
  EditReturned(clone(schema, Renamed(schema, mask, "partial")), schema)

requiredInterface(schema, mask) ==
  EditReturned(clone(schema, Renamed(schema, mask, "required")), schema)

(***************************************************************************)
(* The state machine of the structural edits: one edit is applied to an    *)
(* object-like node.                                                       *)
(***************************************************************************)
Shape3(k1, n1, k2, n2, k3, n3) == (k1 :> n1) @@ (k2 :> n2) @@ (k3 :> n3)

WithChecks(n, checks) == [n EXCEPT !.checks = checks]

EditObjects ==
  {WithChecks(ZodObject(ks, Shape3("a", StringNode, "b", NumberNode, "c", ZodOptional(Lit1)),
                        opt, NoNode), checks) :
     ks \in {<<"a", "b", "c">>, <<"c", "a", "b">>}, opt \in {{}, {"c"}},
     checks \in {<<>>, <<RefineX>>, <<RefineAbort, RefineX>>}}
    \cup {WithChecks(ObjA, <<RefineX>>), ObjB, ZodObject(<<>>, <<>>, {}, NoNode)}

EditInterfaces ==
  {WithChecks(ZodInterface(ks, Shape3("a", StringNode, "b?", NumberNode, "?c", Lit1), NoNode),
              checks) :
     ks \in {<<"a", "b?", "?c">>, <<"?c", "b?", "a">>}, checks \in {<<>>, <<RefineX>>}}
    \cup {WithChecks(ZodInterface(<<"a", "b">>, Shape2("a", StringNode, "b", NumberNode), NoNode),
                      <<RefineX>>)}

EditNodes == EditObjects \cup EditInterfaces

MaxMask == 2

\* The masks: up to MaxMask distinct keys, in any order.
Masks(keys) ==
  {Mask(m) : m \in {m \in SeqsUpTo(keys, MaxMask) : \A i, j \in DOMAIN m : i # j => m[i] # m[j]}}

MaskKeys == {"a", "b", "c", "d", "b?", "?c"}

\* The shapes a node is extended by.
Extensions ==
  {[keys |-> <<"b">>, shape |-> Shape1("b", StringNode)],
   [keys |-> <<"d">>, shape |-> Shape1("d", ZodAny)],
   [keys |-> <<"d", "a">>, shape |-> Shape2("d", NumberNode, "a", Lit1)],
   [keys |-> <<>>, shape |-> <<>>]}

Edit(op, mask, out) ==
  [done |-> TRUE, op |-> op, mask |-> mask, thrown |-> out.thrown, result |-> out.result,
   schema |-> out.schema]

EditInit ==
  /\ node \in EditNodes
  /\ input = Undef
  /\ safeResult = NoResult
  /\ parseResult = NoResult
  /\ fastRun = NoResult
  /\ genericRun = NoResult
  /\ asyncRun = NoResult
  /\ validateResult = NoResult
  /\ edited = NoResult
  /\ lazy = NoResult

Untouched == UNCHANGED <<node, input, safeResult, parseResult, fastRun, genericRun,
                         asyncRun, validateResult, lazy>>

Pick ==
  /\ edited = NoResult
  /\ \E mask \in Masks(MaskKeys) : edited' = Edit("pick", mask, pick(node, mask))
  /\ Untouched

Omit ==
  /\ edited = NoResult
  /\ \E mask \in Masks(MaskKeys) : edited' = Edit("omit", mask, omit(node, mask))
  /\ Untouched

Extend ==
  /\ edited = NoResult
  /\ \E more \in Extensions : edited' = Edit("extend", more, extend(node, more))
  /\ Untouched

\* The partial method of the node's class.
Partial ==
  /\ edited = NoResult
  /\ \E mask \in Masks(MaskKeys) \cup {NoMask} :
       edited' = Edit("partial", mask,
                      IF node.type = "interface" THEN partialInterface(node, mask)
                      ELSE partialObject(node, mask))
  /\ Untouched

\* The required method of the node's class.
Required ==
  /\ edited = NoResult
  /\ \E mask \in Masks(MaskKeys) \cup {NoMask} :
       edited' = Edit("required", mask,
                      IF node.type = "interface" THEN requiredInterface(node, mask)
                      ELSE requiredObject(node, mask))
  /\ Untouched

EditNext == Pick \/ Omit \/ Extend \/ Partial \/ Required

EditSpec == EditInit /\ [][EditNext]_vars


(***************************************************************************)
(* The structure of a node: its children and everything below it.          *)
(***************************************************************************)
Children(n) ==
  CASE n.type \in {"optional", "default", "catch", "promise", "readonly"} -> {n.innerType}
    [] n.type = "array" -> {n.element}
    [] n.type = "object" ->
         {n.shape[key] : key \in DOMAIN n.shape} \cup
         (IF n.catchall = NoNode THEN {} ELSE {n.catchall})
    [] n.type = "union" -> {n.options[i] : i \in DOMAIN n.options}
    [] n.type = "intersection" -> {n.left, n.right}
    [] n.type = "pipe" -> {n.in, n.out}
    [] n.type = "record" -> {n.keyType, n.valueType}
    [] n.type = "tuple" ->
         {n.items[i] : i \in DOMAIN n.items} \cup (IF n.rest = NoNode THEN {} ELSE {n.rest})
    [] OTHER -> {}

RECURSIVE Subnodes(_)
Subnodes(n) == {n} \cup UNION {Subnodes(c) : c \in Children(n)}

\* A function of the node or of a node below it returns a Promise.
ContainsAsync(n) ==
  \E m \in Subnodes(n) :
    \/ m.type = "transform" /\ m.transform.async
    \/ \E i \in DOMAIN checksOf(m) : checksOf(m)[i].fn.async

ContainsIntersection(n) == \E m \in Subnodes(n) : m.type = "intersection"

IsPlainUnionOfTwo ==
  node.type = "union" /\ ~IsDiscriminatedUnion(node) /\ Len(node.options) = 2

SelfCall == <<[node |-> node, value |-> input]>>

C2_UnionFirstAcceptingOption ==
  (fastRun.done /\ IsPlainUnionOfTwo /\ fastRun.res.thrown = "none") =>
    LET res == fastRun.res
        ra == run(node.options[1], Fresh(input), SyncCtx)
        rb == run(node.options[2], Fresh(input), SyncCtx)
    IN IF ra.issues = <<>>
       THEN res.value = ra.value /\ res.issues = <<>> /\ res.calls = SelfCall \o ra.calls
       ELSE IF rb.issues = <<>>
       THEN /\ res.value = rb.value
            /\ res.issues = <<>>
            /\ res.calls = SelfCall \o ra.calls \o rb.calls
       ELSE /\ Len(res.issues) = 1
            /\ res.issues[1].code = "invalid_union"
            /\ res.issues[1].path = <<>>
            /\ res.issues[1].errors = <<Finalized(ra.issues), Finalized(rb.issues)>>

\* Both options rejected the input: one invalid_union issue with two non-empty groups.
C2_Witness ==
  /\ fastRun.done /\ IsPlainUnionOfTwo /\ fastRun.res.thrown = "none"
  /\ Len(fastRun.res.issues) = 1
  /\ Len(fastRun.res.issues[1].errors) = 2
  /\ fastRun.res.issues[1].errors[1] # <<>>
  /\ fastRun.res.issues[1].errors[2] # <<>>

(***************************************************************************)
(* C3: a discriminated union without fallback whose options are objects    *)
(* with a literal type field: an input whose type is the literal of an     *)
(* option runs that option only and the result is that option's; an input  *)
(* whose type is no option's literal runs no option and gets exactly one   *)
(* invalid_union issue, "No matching discriminator", with no sub-issues.   *)
(***************************************************************************)
IsTypeDiscriminatedUnion == IsDiscriminatedUnion(node) /\ node.unionFallback = FALSE

OptionsOfType(tag) ==
  {i \in DOMAIN node.options : node.options[i].shape["type"].values = <<tag>>}

C3_DiscriminatedUnionRouting ==
  (fastRun.done /\ IsTypeDiscriminatedUnion /\ isObject(input)) =>
    LET res == fastRun.res
        matching == OptionsOfType(Get(input, "type"))
    IN /\ \A i \in matching :
            LET ro == run(node.options[i], Fresh(input), SyncCtx)
            IN /\ res.value = ro.value
               /\ res.issues = ro.issues
               /\ res.calls = SelfCall \o ro.calls
       /\ matching = {} =>
            /\ res.calls = SelfCall
            /\ Len(res.issues) = 1
            /\ res.issues[1].code = "invalid_union"
            /\ res.issues[1].note = "No matching discriminator"
            /\ res.issues[1].errors = <<>>
            /\ res.issues[1].path = <<>>

\* An input of type "a" was routed to the "a" option, which rejected its v.
C3_Witness ==
  /\ fastRun.done /\ IsTypeDiscriminatedUnion /\ isObject(input)
  /\ Get(input, "type") = Str("a")
  /\ OptionsOfType(Str("a")) # {}
  /\ Len(fastRun.res.issues) = 1
  /\ fastRun.res.issues[1].path = <<Str("v")>>


(***************************************************************************)
(* C4 as stated: the intersection of {a: string} and {b: number} on        *)
(* {a: "x", b: 1} yields {a: "x", b: 1} without issues, and the            *)
(* intersection of {a: literal 1} and {a: literal 2} raises the            *)
(* unmergeable-intersection error instead of validation issues.            *)
(***************************************************************************)
InputAB == Obj(<<"a", "b">>, <<Str("x"), Num(1)>>)
InputA1 == Obj(<<"a">>, <<Num(1)>>)
InputA2 == Obj(<<"a">>, <<Num(2)>>)

C4_LiteralMismatchRaises ==
  /\ (safeResult.done /\ node = ZodIntersection(ObjA, ObjB) /\ input = InputAB) =>
       (safeResult.success /\ safeResult.data = InputAB)
  /\ (safeResult.done /\ node = ZodIntersection(ObjLit1, ObjLit2)
        /\ input \in {InputA1, InputA2}) =>
       safeResult.raised = UnmergableError

(***************************************************************************)
(* C4, amended: the intersection of {a: string} and {b: number} on         *)
(* {a: "x", b: 1} yields {a: "x", b: 1} without issues.  The intersection  *)
(* of {a: literal 1} and {a: literal 2} raises nothing on any input: a     *)
(* side always rejects, and the result is that side's validation issues    *)
(* (on {a: 1}, one invalid_value issue at path ["a"]).  The unmergeable    *)
(* error is raised only when neither side left an issue that aborts, and   *)
(* their outputs do not merge.                                             *)
(***************************************************************************)
C4_IntersectionMergesOrReports ==
  /\ (safeResult.done /\ node = ZodIntersection(ObjA, ObjB) /\ input = InputAB) =>
       (safeResult.raised = "none" /\ safeResult.success /\ safeResult.data = InputAB)
  /\ (safeResult.done /\ node = ZodIntersection(ObjLit1, ObjLit2)) =>
       /\ safeResult.raised = "none"
       /\ ~safeResult.success
       /\ \A i \in DOMAIN safeResult.error :
            safeResult.error[i].code \in {"invalid_value", "invalid_type"}
       /\ input = InputA1 =>
            /\ Len(safeResult.error) = 1
            /\ safeResult.error[1].code = "invalid_value"
            /\ safeResult.error[1].path = <<Str("a")>>
            /\ safeResult.error[1].inst = Lit2
  /\ (fastRun.done /\ node.type = "intersection"
        /\ fastRun.res.thrown = UnmergableError) =>
       LET left == run(node.left, Fresh(input), SyncCtx)
           right == run(node.right, Fresh(input), SyncCtx)
       IN /\ left.thrown = "none" /\ right.thrown = "none"
          /\ \A i \in DOMAIN left.issues : left.issues[i].cont = TRUE
          /\ \A i \in DOMAIN right.issues : right.issues[i].cont = TRUE
          /\ left.value # right.value

\* The literal-mismatch intersection was applied to {a: 1} and reported an
\* issue instead of raising.
C4_Witness ==
  /\ safeResult.done /\ node = ZodIntersection(ObjLit1, ObjLit2) /\ input = InputA1
  /\ safeResult.raised = "none" /\ ~safeResult.success

(***************************************************************************)
(* C5: for every object-like node and every input, the fast path (a        *)
(* synchronous context that allows precompilation) and the generic loop    *)
(* (noPrecompilation) give the same output value with the same keys        *)
(* present, and the same issues in the same order.                         *)
(***************************************************************************)
SameKeysAndValues(a, b) ==
  IF isObject(a) /\ isObject(b)
  THEN /\ SeqRange(OwnKeys(a)) = SeqRange(OwnKeys(b))
       /\ \A key \in SeqRange(OwnKeys(a)) : Get(a, key) = Get(b, key)
  ELSE a = b

C5_FastPathEqualsGenericLoop ==
  (fastRun.done /\ genericRun.done /\ node.type = "object") =>
    /\ fastRun.res.thrown = genericRun.res.thrown
    /\ SameKeysAndValues(fastRun.res.value, genericRun.res.value)
    /\ fastRun.res.issues = genericRun.res.issues

(***************************************************************************)
(* C6: Optional(T) applied to undefined returns undefined with no issue    *)
(* and never invokes T.                                                    *)
(***************************************************************************)
C6_OptionalPassesUndefined ==
  /\ (fastRun.done /\ node.type = "optional" /\ input = Undef) =>
       /\ fastRun.res.thrown = "none"
       /\ fastRun.res.value = Undef
       /\ fastRun.res.issues = <<>>
       /\ fastRun.res.calls = SelfCall
  /\ (safeResult.done /\ node.type = "optional" /\ input = Undef) =>
       (safeResult.raised = "none" /\ safeResult.success /\ safeResult.data = Undef)

\* Optional(T) was applied to undefined, for a T that rejects undefined.
C6_Witness ==
  /\ fastRun.done /\ node.type = "optional" /\ input = Undef
  /\ run(node.innerType, Fresh(Undef), SyncCtx).issues # <<>>

(***************************************************************************)
(* C7: Default(T, () => v) applied to undefined returns v with no issue    *)
(* and does not run T on v, even when T would reject v.                    *)
(***************************************************************************)
C7_DefaultNotValidated ==
  /\ (fastRun.done /\ node.type = "default" /\ input = Undef) =>
       /\ fastRun.res.thrown = "none"
       /\ fastRun.res.value = node.defaultValue
       /\ fastRun.res.issues = <<>>
       /\ fastRun.res.calls = SelfCall
  /\ (safeResult.done /\ node.type = "default" /\ input = Undef) =>
       /\ safeResult.raised = "none" /\ safeResult.success
       /\ safeResult.data = node.defaultValue

\* Default(T, v) was applied to undefined, for a T that rejects v.
C7_Witness ==
  /\ fastRun.done /\ node.type = "default" /\ input = Undef
  /\ run(node.innerType, Fresh(node.defaultValue), SyncCtx).issues # <<>>

(***************************************************************************)
(* C8: Catch(T, () => v) applied to x returns v when T applied to x        *)
(* produces issues and T's result otherwise, with no issue in both cases.  *)
(***************************************************************************)
C8_CatchRecovers ==
  (fastRun.done /\ node.type = "catch" /\ fastRun.res.thrown = "none") =>
    LET rt == run(node.innerType, Fresh(input), SyncCtx)
    IN /\ fastRun.res.issues = <<>>
       /\ fastRun.res.value = IF rt.issues # <<>> THEN node.catchValue ELSE rt.value
       /\ safeResult.done =>
            /\ safeResult.raised = "none" /\ safeResult.success
            /\ safeResult.data = fastRun.res.value

\* Catch(T, v) was applied to an input that T rejects, and T's output is not v.
C8_Witness ==
  /\ fastRun.done /\ node.type = "catch" /\ fastRun.res.thrown = "none"
  /\ run(node.innerType, Fresh(input), SyncCtx).issues # <<>>
  /\ run(node.innerType, Fresh(input), SyncCtx).value # node.catchValue
  /\ fastRun.res.value = node.catchValue


(***************************************************************************)
(* C9: the path of an issue is the sequence of keys and indices that leads *)
(* from the root input to the value the issue is about.  An array node on  *)
(* a non-array reports one invalid_type issue with the empty path; on an   *)
(* array it reports each element's issues under the element's index, so    *)
(* [badValue] gives path [0]; {a: {b: string}} on {a: {b: 5}} reports one  *)
(* issue with path ["a", "b"].                                             *)
(***************************************************************************)
NoSuchValue == [k |-> "none"]

\* The value reached from v along the path.
RECURSIVE ValueAt(_, _)
ValueAt(v, path) ==
  IF path = <<>> THEN v
  ELSE IF ~isObject(v) THEN NoSuchValue
  ELSE ValueAt(Get(v, PropertyKey(Head(path))), Tail(path))

\* The second node of a pipe is given the output of the first: its issues
\* are about that value.
PathsLeadToInputs(res) ==
  \A i \in DOMAIN res.issues :
    LET iss == res.issues[i]
    IN IF iss.code = "invalid_key"
       THEN iss.path = <<iss.input>> /\ KeyIn(input, PropertyKey(iss.input))
       ELSE \/ ValueAt(input, iss.path) = iss.input
            \/ /\ node.type = "pipe"
               /\ ValueAt(run(node.in, Fresh(input), SyncCtx).value, iss.path) = iss.input

\* The issues of the elements from the i-th on, each under its index.
RECURSIVE ElementIssues(_, _, _, _)
ElementIssues(element, xs, i, ctx) ==
  IF i > Len(xs) THEN <<>>
  ELSE LET own == run(element, Fresh(xs[i]), ctx).issues
       IN [j \in DOMAIN own |-> [own[j] EXCEPT !.path = <<Num(i - 1)>> \o @]]
            \o ElementIssues(element, xs, i + 1, ctx)

ArrayPaths(res, ctx) ==
  (node.type = "array" /\ res.thrown = "none") =>
    IF input.k # "array"
    THEN /\ Len(res.issues) = 1
         /\ res.issues[1].code = "invalid_type"
         /\ res.issues[1].expected = "array"
         /\ res.issues[1].path = <<>>
    ELSE res.issues = ElementIssues(node.element, input.xs, 1, ctx)

NestedPaths(res) ==
  (node = ObjNested /\ input.k = "object" /\ Get(input, "a").k = "object"
     /\ Get(Get(input, "a"), "b").k = "number") =>
    /\ Len(res.issues) = 1
    /\ res.issues[1].code = "invalid_type"
    /\ res.issues[1].path = <<Str("a"), Str("b")>>

KeySetOf(keyType) ==
  IF keyType.type = "enum" THEN keyType.entries
  ELSE IF keyType.type = "literal" THEN keyType.values
  ELSE <<>>

HasFiniteKeys == node.type = "record" /\ node.keyType.type \in {"enum", "literal"}

RECURSIVE ValueCalls(_, _)
ValueCalls(K, i) ==
  IF i > Len(K) THEN <<>>
  ELSE run(node.valueType, Fresh(Get(input, PropertyKey(K[i]))), SyncCtx).calls
         \o ValueCalls(K, i + 1)

C10_RecordFiniteKeys ==
  (fastRun.done /\ HasFiniteKeys /\ isPlainObject(input)
     /\ fastRun.res.thrown = "none") =>
    LET K == KeySetOf(node.keyType)
        inK == {PropertyKey(K[i]) : i \in DOMAIN K}
        outside == SelectSeq(OwnKeys(input), LAMBDA key : key \notin inK)
        reports == {i \in DOMAIN fastRun.res.issues :
                      fastRun.res.issues[i].code = "unrecognized_keys"}
    IN /\ fastRun.res.calls = SelfCall \o ValueCalls(K, 1)
       /\ outside = <<>> => reports = {}
       /\ outside # <<>> =>
            /\ Cardinality(reports) = 1
            /\ \A i \in reports : fastRun.res.issues[i].keys = outside

(***************************************************************************)
(* C11.  The standard validate tolerates asynchrony: whatever pending      *)
(* operation a check, a transform or a child produces, validate does not   *)
(* raise the unexpected-async error; it answers { value } (no issue) or    *)
(* { issues }, as a pending result when something is pending and at once   *)
(* when nothing is, and a pending result it returns resolves to one of the *)
(* two forms.                                                              *)
(***************************************************************************)
\* The node holds a function that returns a Promise, or a promise node.
ContainsPending(n) == ContainsAsync(n) \/ \E m \in Subnodes(n) : m.type = "promise"

C11_ValidateToleratesAsync ==
  validateResult.done =>
    /\ validateResult.raised # AsyncError
    /\ validateResult.rejected # AsyncError
    /\ validateResult.form = "value" <=> Len(validateResult.issues) = 0
    /\ ~ContainsPending(node) => ~validateResult.pending

(***************************************************************************)
(* C12.  When a node's own type validation has pushed a non-continuable    *)
(* issue, no attached check without a when predicate is invoked, an        *)
(* asynchronous one no more than another: the standard validate of a       *)
(* string node on a number answers at once, and when none of its checks    *)
(* has a when predicate, with exactly one issue, the invalid_type issue    *)
(* expecting a string with an empty path, as the string node without       *)
(* checks does.                                                            *)
(***************************************************************************)
StringOnNonString == node.type = "string" /\ input.k # "string"

NoCheckWithoutWhenInvoked(trace) ==
  \A j \in DOMAIN trace : trace[j].check.when = "none" => ~trace[j].invoked

C13_SyncRunNeverPending ==
  fastRun.done =>
    /\ ~fastRun.res.promise
    /\ fastRun.res.thrown \in {"none", AsyncError, UnmergableError}

(***************************************************************************)
(* The structural edits.                                                   *)
(***************************************************************************)
\* The keys a mask selects in a shape: all of them without a mask.
Selected(key, mask) == ~mask.given \/ key \in SeqRange(mask.keys)

\* The order of the keys of ks that are in S, as a set of ordered pairs.
OrderIn(ks, S) ==
  {p \in S \X S : \E i, j \in DOMAIN ks : i < j /\ ks[i] = p[1] /\ ks[j] = p[2]}

\* The shape the edit edited.op (with the mask or extension edited.mask)
\* makes of the shape of node, stated key by key.
ShapeTransformed ==
  LET r == edited.result
      mask == edited.mask
      old == SeqRange(node.keys)
      new == SeqRange(r.keys)
  IN /\ Len(r.keys) = Cardinality(new)
     /\ DOMAIN r.shape = new
     /\ CASE edited.op = "pick" ->
               /\ new = SeqRange(mask.keys)
               /\ \A key \in new : r.shape[key] = node.shape[key]
          [] edited.op = "omit" ->
               /\ new = old \ SeqRange(mask.keys)
               /\ \A key \in new : r.shape[key] = node.shape[key]
               /\ OrderIn(r.keys, new) = OrderIn(node.keys, new)
          [] edited.op = "extend" ->
               /\ new = old \cup SeqRange(mask.keys)
               /\ \A key \in new :
                    r.shape[key] = IF key \in SeqRange(mask.keys) THEN mask.shape[key]
                                   ELSE node.shape[key]
               /\ OrderIn(r.keys, old) = OrderIn(node.keys, old)
          [] edited.op = "partial" /\ node.type = "object" ->
               /\ r.keys = node.keys
               /\ \A key \in new :
                    r.shape[key] = IF Selected(key, mask)
                                   THEN [type |-> "optional", innerType |-> node.shape[key],
                                         checks |-> <<>>]
                                   ELSE node.shape[key]
          [] edited.op = "required" /\ node.type = "object" ->
               /\ r.keys = node.keys
               /\ \A key \in new :
                    r.shape[key] = IF Selected(key, mask)
                                   THEN [type |-> "required", innerType |-> node.shape[key],
                                         checks |-> <<>>]
                                   ELSE node.shape[key]
          [] edited.op = "partial" /\ node.type = "interface" ->
               /\ Cardinality(new) = Cardinality(old)
               /\ \A key \in old :
                    LET name == IF Selected(key, mask) /\ ~EndsMarked(key)
                                THEN key \o "?" ELSE key
                    IN name \in new /\ r.shape[name] = node.shape[key]
          [] edited.op = "required" /\ node.type = "interface" ->
               /\ Cardinality(new) = Cardinality(old)
               /\ \A key \in old :
                    \E name \in new :
                      /\ r.shape[name] = node.shape[key]
                      /\ IF Selected(key, mask)
                         THEN name \in FieldNames /\ key \in {name, name \o "?", "?" \o name}
                         ELSE name = key

\* C14. pick, omit, extend, partial and required applied to an object-like
\* node return a node of the same kind whose shape is the shape of the
\* original transformed per the mask and whose check list is empty, and the
\* definition of the original (its keys, its shape, its checks) is after the
\* call what it was before.  pick and omit return no node when the mask
\* names a key the shape does not have; the other edits always return one.
C14_EditsReturnNewNode ==
  edited.done =>
    /\ edited.schema = node
    /\ edited.thrown # "none" <=>
         /\ edited.op \in {"pick", "omit"}
         /\ \E i \in DOMAIN edited.mask.keys : edited.mask.keys[i] \notin SeqRange(node.keys)
    /\ edited.thrown = "none" =>
         /\ edited.result.type = node.type
         /\ edited.result.checks = <<>>
         /\ edited.result.catchall = node.catchall
         /\ ShapeTransformed

\* An edit that changed the shape of a node that has checks.
C14_Witness ==
  /\ edited.done
  /\ edited.thrown = "none"
  /\ node.checks # <<>>
  /\ edited.op = "omit"
  /\ edited.mask.keys # <<>>
  /\ edited.result.keys # node.keys
  /\ edited.result.keys # <<>>

(***************************************************************************)
(* The order of the checks and the turn of each.                           *)
(***************************************************************************)
\* Each check of the list has its turn once, in declaration order, and at
\* its turn it is invoked exactly when its when predicate holds of the
\* payload or, without one, when the payload holds no issue that is not
\* continuable.
InvokedInTurn(checks, trace) ==
  /\ Len(trace) = Len(checks)
  /\ \A i \in DOMAIN trace :
       /\ trace[i].check = checks[i]
       /\ trace[i].invoked <=>
            IF checks[i].when # "none" THEN whenHolds(checks[i], [value |-> trace[i].value])
            ELSE ~aborted(trace[i].issues, 0)

\* C15. run invokes parse first and then the attached checks in declaration
\* order (the node itself first when it is a check); at its turn a check
\* with a when predicate is invoked exactly when when(payload) is true, and
\* a check without one exactly when the payload holds no non-continuable
\* issue.  Stated of a run under { async: true } that did not throw.
C15_ChecksInvokedInTurn ==
  (asyncRun.done /\ asyncRun.res.thrown = "none" /\ checksOf(node) # <<>>) =>
    /\ asyncRun.res.calls[1] = [node |-> node, value |-> input]
    /\ InvokedInTurn(checksOf(node), asyncRun.res.trace)

(***************************************************************************)
(* Checks that return pending results.                                     *)
(***************************************************************************)
\* The issues the invoked checks of a log push, check by check in
\* declaration order.
RECURSIVE PushesOf(_)
PushesOf(trace) ==
  IF trace = <<>> THEN <<>>
  ELSE LET t == trace[1]
       IN (IF t.invoked
           THEN handleRefineResult(t.value \in t.check.fn.accepts, <<>>, t.value, t.check)
           ELSE <<>>) \o PushesOf(Tail(trace))

SomeCheckPending(trace) == \E i \in DOMAIN trace : trace[i].invoked /\ trace[i].check.fn.async

\* C16. When one or more checks of a node return pending results under
\* { async: true }, the run result of the node is pending and resolves only
\* after every dispatched check has completed: the payload it resolves to
\* holds, behind the issues of parse, every issue the invoked checks push,
\* in declaration order whatever the order in which the checks complete,
\* and nothing is pushed onto it afterwards.
C16_PendingChecksAwaited ==
  (asyncRun.done /\ asyncRun.res.thrown = "none" /\ SomeCheckPending(asyncRun.res.trace)) =>
    /\ asyncRun.res.promise
    /\ asyncRun.res.late = <<>>
    /\ asyncRun.res.issues = asyncRun.res.trace[1].issues \o PushesOf(asyncRun.res.trace)

(***************************************************************************)
(* Composite nodes whose children complete asynchronously.                 *)
(***************************************************************************)
\* The place of a child in the dispatch order of its parent, by the first
\* segment of the path of its issues: the index of an array or tuple item,
\* the place of the key in the shape of an object, the place of the key
\* among the own keys of the input of a record.
Position(seg) ==
  CASE node.type \in {"array", "tuple"} -> seg.n
    [] node.type = "object" -> IndexOfKey(node.keys, seg.s)
    [] OTHER -> IndexOfKey(OwnKeys(input), seg.s)

Composite ==
  \/ node.type \in {"array", "tuple", "object"}
  \/ (node.type = "record" /\ ~HasFiniteKeys)

\* C17. Within one composite node (object, array, tuple, record) whose
\* children complete asynchronously, the issues of the children stand in the
\* issue list of the parent in the order in which the children were
\* dispatched (declaration, key or index order), whatever the order in which
\* they complete, synchronous children included.
C17_IssuesInDispatchOrder ==
  (asyncRun.done /\ asyncRun.res.thrown = "none" /\ asyncRun.res.promise /\ Composite) =>
    LET issues == SelectSeq(asyncRun.res.issues, LAMBDA iss : iss.path # <<>>)
    IN \A i, j \in DOMAIN issues :
         i < j => Position(issues[i].path[1]) <= Position(issues[j].path[1])

\* The child of an array or tuple that is run on position i of the input
\* (from 0), and its run on that element alone.
ChildAt(i) ==
  IF node.type = "array" THEN node.element
  ELSE IF i < Len(node.items) THEN node.items[i + 1]
  ELSE node.rest

ChildRun(i) == run(ChildAt(i), Fresh(input.xs[i + 1]), AsyncCtx)

\* The issue of a child as the parent reports it for position i.
AtPosition(iss, i) == [iss EXCEPT !.path = <<Num(i)>> \o @]

\* C18. For array and tuple nodes with asynchronous children, the result
\* of each child is written to the output slot at the position of that
\* child and its issues are prefixed with that same position, whatever the
\* order in which the children complete; the output of an array has the
\* length of its input.  Stated of the inputs that pass the length check of
\* the node.
C18_SlotsByPosition ==
  (/\ asyncRun.done /\ asyncRun.res.thrown = "none" /\ asyncRun.res.promise
   /\ node.type \in {"array", "tuple"} /\ input.k = "array"
   /\ \A j \in DOMAIN asyncRun.res.issues : asyncRun.res.issues[j].path # <<>>) =>
    LET res == asyncRun.res
        positions == 0 .. (Len(input.xs) - 1)
    IN /\ node.type = "array" => Len(res.value.xs) = Len(input.xs)
       /\ \A i \in positions :
            /\ ChildRun(i).issues = <<>> => At(res.value.xs, i) = ChildRun(i).value
            /\ \A k \in DOMAIN ChildRun(i).issues :
                 \E j \in DOMAIN res.issues :
                   res.issues[j] = AtPosition(ChildRun(i).issues[k], i)
       /\ \A j \in DOMAIN res.issues :
            \E i \in positions :
              \E k \in DOMAIN ChildRun(i).issues :
                res.issues[j] = AtPosition(ChildRun(i).issues[k], i)

(***************************************************************************)
(* Tuples: the length check and the trailing optional items.               *)
(***************************************************************************)
\* The count of required leading items: the place of the last item whose
\* output is not optional, 0 when every item is optional.
RequiredCount(items) ==
  IF \A i \in DOMAIN items : qout(items[i]) THEN 0
  ELSE CHOOSE i \in DOMAIN items : ~qout(items[i]) /\ \A j \in DOMAIN items : j > i => qout(items[j])

\* The result holds one issue, a length issue of this code reported against
\* the input array as a whole, and no item was run.
OnlyLengthIssue(res, code) ==
  /\ Len(res.issues) = 1
  /\ res.issues[1].code = code
  /\ res.issues[1].path = <<>>
  /\ res.issues[1].input = input
  /\ res.issues[1].origin = "array"
  /\ Len(res.calls) = 1

\* C19. For a tuple without a rest node, an input longer than the item
\* count yields exactly one too_big issue and an input shorter than the
\* count of required leading items yields exactly one too_small issue,
\* reported against the array as a whole with no item validated; for every
\* other input length no length issue is reported.
C19_TupleLengthCheck ==
  (fastRun.done /\ node.type = "tuple" /\ node.rest = NoNode /\ input.k = "array") =>
    LET res == fastRun.res
        len == Len(input.xs)
    IN /\ res.thrown = "none"
       /\ len > Len(node.items) => OnlyLengthIssue(res, "too_big")
       /\ len < RequiredCount(node.items) => OnlyLengthIssue(res, "too_small")
       /\ (len <= Len(node.items) /\ len >= RequiredCount(node.items)) =>
            \A i \in DOMAIN res.issues : res.issues[i].code \notin {"too_big", "too_small"}

\* The item positions (from 0) that lie beyond the input and belong to the
\* trailing run of optional items.
TrailingBeyondInput ==
  {i \in 0 .. (Len(node.items) - 1) : i >= Len(input.xs) /\ i >= RequiredCount(node.items)}

\* C20. For every tuple item list and every input, an item position that
\* lies beyond the input length and belongs to the trailing run of optional
\* items is skipped: its child node is never run and it adds no issue and
\* no output slot.
C20_TrailingOptionalSkipped ==
  (fastRun.done /\ node.type = "tuple" /\ input.k = "array" /\ fastRun.res.thrown = "none") =>
    \A i \in TrailingBeyondInput :
      /\ \A c \in DOMAIN fastRun.res.calls :
           fastRun.res.calls[c] # [node |-> node.items[i + 1], value |-> Undef]
      /\ \A j \in DOMAIN fastRun.res.issues :
           fastRun.res.issues[j].path = <<>> \/ fastRun.res.issues[j].path[1] # Num(i)
      /\ Len(fastRun.res.value.xs) <= i

(***************************************************************************)
(* Object-like nodes: the children that fail.                              *)
(***************************************************************************)
\* The issue of a child as the parent reports it under this key.
AtKey(iss, key) == [iss EXCEPT !.path = <<Str(key)>> \o @]

\* The issues of a result that lie under this key.
Under(issues, key) ==
  SelectSeq(issues, LAMBDA iss : iss.path # <<>> /\ iss.path[1] = Str(key))

\* What the result res of the object node holds for each key of the shape
\* whose child fails on the raw input under the key.
FailingChildrenFolded(res, ctx) ==
  \A key \in SeqRange(node.keys) :
    LET child == run(node.shape[key], Fresh(Get(input, key)), ctx)
    IN child.issues # <<>> =>
         IF key \in node.optional /\ Get(input, key) = Undef
         THEN /\ Under(res.issues, key) = <<>>
              /\ KeyIn(res.value, key) <=> KeyIn(input, key)
              /\ Get(res.value, key) = Undef
         ELSE Under(res.issues, key) = [k \in DOMAIN child.issues |-> AtKey(child.issues[k], key)]

\* C21. In object-like validation a failing child of an optional shape key
\* whose raw input value is undefined (key absent or explicitly undefined)
\* adds no issue to the parent, and the output holds that key, with the
\* value undefined, exactly when the key is present in the input; in every
\* other case the issues of a failing child are added to the parent with
\* the key prepended to their path.  Stated of the generated fast path and
\* of the generic loop.
C21_OptionalKeyFailure ==
  /\ (fastRun.done /\ node.type = "object" /\ isObject(input) /\ fastRun.res.thrown = "none")
       => FailingChildrenFolded(fastRun.res, SyncCtx)
  /\ (genericRun.done /\ node.type = "object" /\ isObject(input)
         /\ genericRun.res.thrown = "none")
       => FailingChildrenFolded(genericRun.res, NoPrecompCtx)

\* An optional key whose child rejects undefined, given as undefined.
C21_Witness ==
  /\ genericRun.done
  /\ node.type = "object"
  /\ "a" \in node.optional
  /\ node.shape["a"] = StringNode
  /\ input.k = "object"
  /\ KeyIn(input, "a")
  /\ Get(input, "a") = Undef
  /\ Under(genericRun.res.issues, "a") = <<>>
  /\ KeyIn(genericRun.res.value, "a")

(***************************************************************************)
(* Object-like nodes: the catchall.                                        *)
(***************************************************************************)
\* The input keys that are not in the shape, in the order of the input.
ExtraKeys == SelectSeq(OwnKeys(input), LAMBDA key : key \notin SeqRange(node.keys))

\* The unrecognized_keys issues the node itself reports.
Unrecognized(issues) ==
  SelectSeq(issues, LAMBDA iss : iss.code = "unrecognized_keys" /\ iss.path = <<>>)

Validated(res, key) ==
  \E c \in DOMAIN res.calls : res.calls[c] = [node |-> node.catchall, value |-> Get(input, key)]

CatchallHandled(res, ctx) ==
  IF node.catchall.type = "never"
  THEN /\ Len(Unrecognized(res.issues)) = (IF ExtraKeys = <<>> THEN 0 ELSE 1)
       /\ ExtraKeys # <<>> =>
            /\ Unrecognized(res.issues)[1].keys = ExtraKeys
            /\ Unrecognized(res.issues)[1].input = input
       /\ \A i \in DOMAIN ExtraKeys :
            /\ ~Validated(res, ExtraKeys[i])
            /\ Under(res.issues, ExtraKeys[i]) = <<>>
            /\ ~KeyIn(res.value, ExtraKeys[i])
  ELSE /\ Unrecognized(res.issues) = <<>>
       /\ \A i \in DOMAIN ExtraKeys :
            LET key == ExtraKeys[i]
                child == run(node.catchall, Fresh(Get(input, key)), ctx)
            IN /\ Validated(res, key)
               /\ IF child.issues = <<>>
                  THEN /\ KeyIn(res.value, key)
                       /\ Get(res.value, key) = child.value
                       /\ Under(res.issues, key) = <<>>
                  ELSE Under(res.issues, key)
                         = [k \in DOMAIN child.issues |-> AtKey(child.issues[k], key)]

\* C22. With a catchall node set, the input keys that are not in the shape
\* are handled as follows: a never catchall produces exactly one
\* unrecognized_keys issue that lists all of them and validates none of
\* them; any other catchall validates each of them, folds its value or its
\* key-prefixed issues into the result and produces no unrecognized_keys
\* issue.
C22_Catchall ==
  /\ (/\ fastRun.done /\ node.type = "object" /\ node.catchall # NoNode
      /\ isObject(input) /\ fastRun.res.thrown = "none")
       => CatchallHandled(fastRun.res, SyncCtx)
  /\ (/\ genericRun.done /\ node.type = "object" /\ node.catchall # NoNode
      /\ isObject(input) /\ genericRun.res.thrown = "none")
       => CatchallHandled(genericRun.res, NoPrecompCtx)

\* A catchall other than never over two extra keys, one accepted and one
\* rejected.
C22_Witness ==
  /\ fastRun.done
  /\ node.type = "object"
  /\ node.catchall = StringNode
  /\ Len(ExtraKeys) = 2
  /\ Under(fastRun.res.issues, ExtraKeys[1]) # <<>>
  /\ KeyIn(fastRun.res.value, ExtraKeys[2])
(***************************************************************************)
(* Composite nodes: every child is run and every failure is reported.      *)
(***************************************************************************)
\* The children a composite node has on this input, each with the value it
\* is to be run on and the path its issues are reported under: the element
\* of an array per index, the item or rest node of a tuple per index of an
\* input that passes the length check, the children of the shape keys of an
\* object and its catchall per key outside the shape, the value node of a
\* record per key, both sides of an intersection.
ChildOf(child, value, path) == [node |-> child, value |-> value, path |-> path]

SiblingRuns(res) ==
  CASE node.type = "array" /\ input.k = "array" ->
         {ChildOf(node.element, input.xs[i], <<Num(i - 1)>>) : i \in DOMAIN input.xs}
    [] node.type = "tuple" /\ input.k = "array"
         /\ \A j \in DOMAIN res.issues : res.issues[j].code \notin {"too_big", "too_small"} ->
         {ChildOf(ChildAt(i - 1), input.xs[i], <<Num(i - 1)>>) :
            i \in {j \in DOMAIN input.xs : j <= Len(node.items) \/ node.rest # NoNode}}
    [] node.type = "object" /\ isObject(input) ->
         {ChildOf(node.shape[key], Get(input, key), <<Str(key)>>) : key \in SeqRange(node.keys)}
           \cup (IF node.catchall = NoNode \/ node.catchall.type = "never" THEN {}
                 ELSE {ChildOf(node.catchall, Get(input, key), <<Str(key)>>) :
                         key \in SeqRange(ExtraKeys)})
    [] node.type = "record" /\ isPlainObject(input) /\ HasFiniteKeys ->
         {ChildOf(node.valueType, Get(input, PropertyKey(key)), <<key>>) :
            key \in {k \in SeqRange(values(node.keyType).seq) : k.k \in {"string", "number"}}}
    [] node.type = "record" /\ isPlainObject(input) /\ ~HasFiniteKeys ->
         {ChildOf(node.valueType, Get(input, key), <<Str(key)>>) :
            key \in SeqRange(OwnKeys(input)) \ {"__proto__"}}
    [] node.type = "intersection" ->
         {ChildOf(node.left, input, <<>>), ChildOf(node.right, input, <<>>)}
    [] OTHER -> {}

\* The failure of this child is one the object node leaves out by its rule
\* for optional keys: the key is optional and the raw input value under it
\* is undefined.
LeftOutAsOptional(c) ==
  /\ node.type = "object"
  /\ c.value = Undef
  /\ \E key \in node.optional : c.path = <<Str(key)>> /\ c.node = node.shape[key]

\* Every child was dispatched, and the issues of every failing child are in
\* the result of the parent under the path of the child.
AllSiblingsRun(res, ctx) ==
  \A c \in SiblingRuns(res) :
    /\ \E k \in DOMAIN res.calls : res.calls[k] = [node |-> c.node, value |-> c.value]
    /\ ~LeftOutAsOptional(c) =>
         LET child == run(c.node, Fresh(c.value), ctx)
         IN \A k \in DOMAIN child.issues :
              \E j \in DOMAIN res.issues :
                res.issues[j] = [child.issues[k] EXCEPT !.path = c.path \o @]

\* C23. A composite node is never fail-fast: every child is dispatched and
\* runs to completion even when an earlier sibling has produced a
\* non-continuable issue, and the result of the parent holds the issues of
\* all failing children (an optional object key whose raw value is
\* undefined reports none by its own rule).  Stated of the synchronous
\* runs of arrays, tuples, objects, records and intersections; the union,
\* which stops at its first success, is the exception and is left out.
C23_NeverFailFast ==
  /\ (fastRun.done /\ fastRun.res.thrown = "none") => AllSiblingsRun(fastRun.res, SyncCtx)
  /\ (genericRun.done /\ genericRun.res.thrown = "none")
       => AllSiblingsRun(genericRun.res, NoPrecompCtx)
(***************************************************************************)
(* Unions with options that are pending.                                   *)
(***************************************************************************)
\* The run of option i of the union on the input, under { async: true }.
OptionRun(i) == run(node.options[i], Fresh(input), AsyncCtx)

SomeOptionPending ==
  /\ node.type = "union"
  /\ ~IsDiscriminatedUnion(node)
  /\ \E i \in DOMAIN node.options : OptionRun(i).promise

\* C24. In a union where at least one option returns a pending result, all
\* options are dispatched before any success is selected, and the union
\* returns a pending result that, once every option has resolved, takes the
\* value of the first option in declaration order that has no issue, with
\* no issue added, or else holds one invalid_union issue that carries the
\* issues of every option.
C24_PendingUnion ==
  (asyncRun.done /\ SomeOptionPending) =>
    LET res == asyncRun.res
        accepting == {i \in DOMAIN node.options : OptionRun(i).issues = <<>>}
    IN /\ res.thrown = "none"
       /\ res.promise
       /\ \A i \in DOMAIN node.options :
            \E c \in DOMAIN res.calls : res.calls[c] = [node |-> node.options[i], value |-> input]
       /\ IF accepting # {}
          THEN /\ res.issues = <<>>
               /\ res.value = OptionRun(CHOOSE i \in accepting : \A j \in accepting : i <= j).value
          ELSE /\ Len(res.issues) = 1
               /\ res.issues[1].code = "invalid_union"
               /\ res.issues[1].errors = [i \in DOMAIN node.options |-> Finalized(OptionRun(i).issues)]
(***************************************************************************)
(* Intersections: both sides, their issues, and the merge.                 *)
(***************************************************************************)
\* C25. An intersection runs both child nodes on the same input with fresh
\* payloads, appends the issues of the left side and then those of the
\* right side to the payload of the parent, and replaces the value with
\* the deep merge of the two outputs only if neither side produced an
\* issue; when any issue exists no merge is attempted, the value stays and
\* the unmergeable-intersection error is not raised.
C25_IntersectionMergesOnlyWithoutIssues ==
  (fastRun.done /\ node.type = "intersection") =>
    LET res == fastRun.res
        left == run(node.left, Fresh(input), SyncCtx)
        right == run(node.right, Fresh(input), SyncCtx)
    IN (left.thrown = "none" /\ right.thrown = "none") =>
         /\ res.calls = SelfCall \o left.calls \o right.calls
         /\ IF left.issues = <<>> /\ right.issues = <<>>
            THEN IF mergeValues(left.value, right.value).valid
                 THEN /\ res.thrown = "none"
                      /\ res.issues = <<>>
                      /\ res.value = mergeValues(left.value, right.value).data
                 ELSE res.thrown = UnmergableError
            ELSE /\ res.thrown = "none"
                 /\ res.issues = left.issues \o right.issues
                 /\ res.value = input
(***************************************************************************)
(* Pipes: the second node after the first.                                 *)
(***************************************************************************)
\* C26. A pipe runs its second node only when the result of the first node
\* holds no non-continuable issue; the second node then receives the output
\* value of the first, and for every kind of second node the final result
\* holds the (continuable) issues of the first stage followed by the issues
\* of the second stage; when the first stage holds a non-continuable issue
\* the second node is never run and the first result is returned unchanged.
C26_PipeStages ==
  (fastRun.done /\ node.type = "pipe" /\ fastRun.res.thrown = "none") =>
    LET res == fastRun.res
        first == run(node.in, Fresh(input), SyncCtx)
        second == run(node.out, Fresh(first.value), SyncCtx)
    IN IF aborted(first.issues, 0)
       THEN /\ res.calls = SelfCall \o first.calls
            /\ res.value = first.value
            /\ res.issues = first.issues
       ELSE /\ res.calls = SelfCall \o first.calls \o second.calls
            /\ res.issues = first.issues \o second.issues
(***************************************************************************)
(* $ZodLazy and util.defineLazy.  The three properties _getter, pattern    *)
(* and disc of inst._zod are defined lazily: each is an accessor until its *)
(* get() has defined it as a value.  The getter of the definition is code  *)
(* of the caller: while it executes it may read the properties of the node *)
(* it belongs to (a self-referential schema), and each of its invocations  *)
(* builds a new inner node.  A read in progress is a frame of the stack.   *)
(***************************************************************************)
MaxCalls == 3
MaxReads == 3

ZodLazy(getter) == [type |-> "lazy", getter |-> getter, checks |-> <<>>]

LazyKeys == {"_getter", "pattern", "disc"}

\* The property is still the accessor defined by defineLazy.
Accessor == [made |-> 0]

\* The node built by invocation number c of def.getter.
Inner(node_, c) == [made |-> c, node |-> node_.getter]

\* inst._zod._getter._zod.pattern / .disc of an inner node.
Derived(key, inner) == [made |-> inner.made, of |-> key]

Frame(key, call) == [key |-> key, call |-> call, got |-> Accessor]

Top(stack) == stack[Len(stack)]

\* A value arrives where it was read: at the use that started the read, in
\* the function of pattern or disc that read _getter, or in the body of the
\* getter.
deliver(lz, value) ==
  IF lz.stack = <<>>
  THEN [lz EXCEPT !.seen = Append(@, [use |-> lz.use, value |-> value]), !.use = "none"]
  ELSE IF Top(lz.stack).key = "_getter"
  THEN [lz EXCEPT !.seen = Append(@, [use |-> "getter", value |-> value])]
  ELSE [lz EXCEPT !.stack[Len(lz.stack)].got = value]

\* A read of object[key]: the value if the property has been defined as
\* one, else get() of the accessor, which calls the getter (set is false).
lazyGet(lz, key) ==
  IF lz.slots[key] # Accessor THEN deliver(lz, lz.slots[key])
  ELSE [lz EXCEPT !.stack = Append(@, Frame(key, IF key = "_getter" THEN lz.calls + 1 ELSE 0)),
                  !.calls = IF key = "_getter" THEN @ + 1 ELSE @]

\* The getter on top of the stack returns: get() defines the property as
\* the value, Object.defineProperty(object, key, { value }), and returns it.
lazyReturn(lz, value) ==
  deliver([lz EXCEPT !.stack = SubSeq(@, 1, Len(@) - 1), !.slots[Top(lz.stack).key] = value],
          value)

\* inst._zod.parse: the inner node is run on the payload once it is there.
Parsed(lz) ==
  IF lazy.use = "parse" /\ lz.use = "none"
  THEN [done |-> TRUE, res |-> run(lz.seen[Len(lz.seen)].value.node, Fresh(input), SyncCtx)]
  ELSE fastRun

LazyStep(lz) ==
  /\ lazy' = lz
  /\ fastRun' = Parsed(lz)
  /\ UNCHANGED <<node, input, safeResult, parseResult, genericRun, asyncRun,
                 validateResult, edited>>

Idle == lazy.stack = <<>> /\ lazy.reads < MaxReads

Started(use) == [lazy EXCEPT !.use = use, !.reads = @ + 1]

LazyInit ==
  /\ node \in {ZodLazy(StringNode), ZodLazy(ZodArray(StringNode))}
  /\ input \in {Str("x"), Num(1)}
  /\ safeResult = NoResult
  /\ parseResult = NoResult
  /\ fastRun = NoResult
  /\ genericRun = NoResult
  /\ asyncRun = NoResult
  /\ validateResult = NoResult
  /\ edited = NoResult
  /\ lazy = [slots |-> [key \in LazyKeys |-> Accessor], calls |-> 0, reads |-> 0,
             stack |-> <<>>, use |-> "none", seen |-> <<>>]

\* inst._zod.parse(payload, ctx)
LazyParse == Idle /\ LazyStep(lazyGet(Started("parse"), "_getter"))

\* inst._zod._getter
ReadInner == Idle /\ LazyStep(lazyGet(Started("_getter"), "_getter"))

\* inst._zod.pattern
ReadPattern == Idle /\ LazyStep(lazyGet(Started("pattern"), "pattern"))

\* inst._zod.disc
ReadDisc == Idle /\ LazyStep(lazyGet(Started("disc"), "disc"))

\* () => inst._zod._getter._zod.pattern (or disc) reads _getter.
ThunkReads ==
  /\ lazy.stack # <<>>
  /\ Top(lazy.stack).key # "_getter"
  /\ Top(lazy.stack).got = Accessor
  /\ lazy.calls < MaxCalls
  /\ LazyStep(lazyGet(lazy, "_getter"))

ThunkReturns ==
  /\ lazy.stack # <<>>
  /\ Top(lazy.stack).key # "_getter"
  /\ Top(lazy.stack).got # Accessor
  /\ LazyStep(lazyReturn(lazy, Derived(Top(lazy.stack).key, Top(lazy.stack).got)))

\* The getter, while it executes, reads a property of its own lazy node.
GetterReads ==
  /\ lazy.stack # <<>>
  /\ Top(lazy.stack).key = "_getter"
  /\ lazy.calls < MaxCalls
  /\ lazy.reads < MaxReads
  /\ \E key \in LazyKeys : LazyStep(lazyGet([lazy EXCEPT !.reads = @ + 1], key))

\* The getter returns the node it has built.
GetterReturns ==
  /\ lazy.stack # <<>>
  /\ Top(lazy.stack).key = "_getter"
  /\ LazyStep(lazyReturn(lazy, Inner(node, Top(lazy.stack).call)))

LazyNext ==
  \/ LazyParse \/ ReadInner \/ ReadPattern \/ ReadDisc
  \/ ThunkReads \/ ThunkReturns \/ GetterReads \/ GetterReturns

LazySpec == LazyInit /\ [][LazyNext]_vars

\* The inner nodes that were handed out to the uses of the node.
InnersSeen ==
  {lazy.seen[i].value.made : i \in DOMAIN lazy.seen}

\* C27. The getter of a lazy node is invoked at most once over any sequence
\* of validations and of reads of the inner schema, the pattern and the
\* discriminator map of the node, a re-entrant read made while the getter
\* is still executing included, and every use sees the same memoized inner
\* node.
C27_GetterInvokedOnce ==
  /\ lazy.calls <= 1
  /\ Cardinality(InnersSeen) <= 1
(***************************************************************************)
(* The payload during one pass.                                            *)
(***************************************************************************)
StartsWith(issues, prefix) ==
  Len(prefix) <= Len(issues) /\ SubSeq(issues, 1, Len(prefix)) = prefix

\* The payload the second node of the pipe receives: the output of the
\* first node with the issues collected so far.
Received ==
  [value |-> run(node.in, Fresh(input), SyncCtx).value,
   issues |-> run(node.in, Fresh(input), SyncCtx).issues]

\* C28. During one validation pass a payload is mutated monotonically: no
\* node operation removes or replaces issues that are present in the
\* payload it received, issues are only appended (and each node replaces
\* the value of the payload at most once).  Stated of the nodes that
\* receive a payload which holds issues, the second node of a pipe after a
\* first node with continuable issues: the issues received are still there,
\* in front, in the payload object that was received and in the payload
\* that is returned, which is the result of the pipe.
C28_PayloadMonotone ==
  (/\ fastRun.done /\ node.type = "pipe" /\ fastRun.res.thrown = "none"
   /\ ~aborted(Received.issues, 0)) =>
    /\ StartsWith(run(node.out, Received, SyncCtx).argi, Received.issues)
    /\ StartsWith(run(node.out, Received, SyncCtx).issues, Received.issues)
    /\ fastRun.res.issues = run(node.out, Received, SyncCtx).issues
(***************************************************************************)
(* Raw and finalized issues.                                               *)
(***************************************************************************)
\* The issue has been through util.finalizeIssue.
IsFinalized(iss) == iss = finalizeIssue(iss)

\* C29. Union is the only node kind that finalizes issues inside node
\* logic: in the payload a run returns, every issue is raw, and the only
\* finalized issues it carries are the sub-issues in the errors of an
\* invalid_union issue; every other node kind passes raw issues upward, so
\* that each issue is finalized once, at the top-level boundary.
C29_OnlyUnionFinalizes ==
  (fastRun.done /\ fastRun.res.thrown = "none") =>
    \A i \in DOMAIN fastRun.res.issues :
      LET iss == fastRun.res.issues[i]
      IN /\ ~IsFinalized(iss)
         /\ \A j \in DOMAIN iss.issues : ~IsFinalized(iss.issues[j])
         /\ iss.code # "invalid_union" => iss.errors = <<>>
(***************************************************************************)
(* The input of the caller.  The nodes are run on objects and arrays that  *)
(* have an identity; what a node returns is either such an object (passed  *)
(* through) or a container built by a node.                                *)
(***************************************************************************)
InnerObject == Located(Obj(<<"b">>, <<Num(1)>>), 2)

LocatedInputs ==
  {Located(Obj(<<"a">>, <<Str("x")>>), 1), Located(Obj(<<"a">>, <<InnerObject>>), 1),
   Located(Obj(<<"a", "b">>, <<Str("x"), Num(1)>>), 1), Located(EmptyObj, 1),
   Located(Arr(<<Str("x")>>), 1), Located(Arr(<<InnerObject>>), 1), Located(Arr(<<>>), 1),
   Str("x")}

PassThrough == {ZodAny, StringNode, ZodOptional(ZodAny), ZodUnion(<<StringNode, ZodAny>>)}

Containers ==
  {ObjA, ObjNested, ZodArray(StringNode), ZodArray(ZodAny), ZodRecord(StringNode, ZodAny),
   ZodTuple(<<ZodAny>>, NoNode), ZodObject(<<"a">>, Shape1("a", ZodAny), {}, ZodAny),
   ZodIntersection(ZodAny, ZodAny), ZodIntersection(ObjA, ZodAny)}

FrameNodes ==
  PassThrough \cup Containers
    \cup {ZodReadonly(t) : t \in PassThrough \cup Containers}
    \cup {ZodArray(ZodReadonly(ZodAny)), ZodObject(<<"a">>, Shape1("a", ZodReadonly(ZodAny)), {}, NoNode),
          ZodCatch(ZodReadonly(ZodAny), Str("d")), ZodPipe(ZodAny, ZodReadonly(ZodAny))}

FrameInit ==
  /\ node \in FrameNodes
  /\ input \in LocatedInputs
  /\ safeResult = NoResult
  /\ parseResult = NoResult
  /\ fastRun = NoResult
  /\ genericRun = NoResult
  /\ asyncRun = NoResult
  /\ validateResult = NoResult
  /\ edited = NoResult
  /\ lazy = NoResult

FrameSpec == FrameInit /\ [][Next]_vars

\* The objects of the caller that are in a value, at any depth.
RECURSIVE LocatedIn(_)
LocatedIn(v) ==
  (IF isObject(v) /\ IsLocated(v) THEN {v} ELSE {})
    \cup (CASE v.k = "array" -> UNION {LocatedIn(v.xs[i]) : i \in DOMAIN v.xs}
            [] v.k = "object" -> UNION {LocatedIn(v.vs[i]) : i \in DOMAIN v.vs}
            [] OTHER -> {})

\* C30. Validation never mutates the input value of the caller: object,
\* array, tuple and record nodes build a fresh output container, and no
\* node, a readonly wrapper over a pass-through inner node included, writes
\* to, deletes from or freezes an object that was passed in: every object
\* of the caller that the output holds is as it was in the input.
C30_InputNotMutated ==
  /\ (fastRun.done /\ fastRun.res.thrown = "none")
       => LocatedIn(fastRun.res.value) \subseteq LocatedIn(input)
  /\ (genericRun.done /\ genericRun.res.thrown = "none")
       => LocatedIn(genericRun.res.value) \subseteq LocatedIn(input)
====
